---- MODULE Spec2Model ----
(***************************************************************************)
(* xfetch: a broker (socket-server.js) relaying fetch requests from        *)
(* requester clients (xfetch.js, class Xfetch) to executor clients (the    *)
(* browser extension).  Two state machines are modelled, each a process    *)
(* with one event loop:                                                    *)
(*   - the broker: registry, heartbeat, request router   (Spec, FairSpec;  *)
(*     RegistrySpec for peers that claim any role)                         *)
(*   - the requester client: send path, queue, transport (ClientSpec,      *)
(*     ClientFairSpec)                                                     *)
(* Every action is one callback of the event loop (a message handler, a    *)
(* timer callback, a socket event) and runs to completion.                 *)
(***************************************************************************)
EXTENDS Integers, Sequences, FiniteSets, TLC

\* ---------------------------------------------------------------- bounds
NConn == 2          \* connections the broker accepts in one run
NReq == 1           \* request ids submitted to the broker in one run
NExec == 3          \* executors in the partition when a selection is made
NQueueCalls == 3    \* calls of Xfetch.fetch() in a run of the outbound queue
NCalls == 1         \* calls of Xfetch.fetch() in one run
NHosts == 2         \* hostnames of the urls of cookies
NCookieValues == 3  \* values a cookie can take
MaxCookies == 2     \* length of the cookie array of a response
MaxAttempt == 8     \* reconnect attempt numbers the delay is computed for
MaxUnanswered == 2  \* pings counted as unanswered on one connection
NSockets == 3       \* WebSocket objects the executor-side client creates in one run
NSchedules == 11    \* value reconnectAttempts is followed up to

\* ------------------------------------------------------ program constants
MaxMissed == 3      \* HEARTBEAT_CONFIG.maxMissed
MaxQueueRetries == 3 \* the literal 3 of validateExtensionClients
RetryDelayMs == 2000 \* the literal 2000 of validateExtensionClients' setTimeout
ReconnectDelayMs == 5000    \* this.reconnectDelay = config.timeout, ms
IdentifyAttempts == 3   \* the literal 3 of fetch's isIdentifiedTimer callback
MaxRetries == 3     \* Xfetch config.maxRetries, its default
SendRetryDelayMs == 1000    \* the literal 1000 of _sendRequest's catch branch
MaxMissedHeartbeats == 3    \* the extension's HEARTBEAT_CONFIG.maxMissedHeartbeats
MaxReconnectAttempts == 10  \* the extension's HEARTBEAT_CONFIG.maxReconnectAttempts

Conn == 1..NConn
ReqId == 1..NReq
NoConn == 0
Roles == {"extension", "xfetch"}
Calls == 1..NCalls

VARIABLES
    \* ---- broker (socket-server.js)
    wsState,        \* per connection: "none" (not yet accepted), "open"
                    \* (readyState OPEN), "closing" (readyState not OPEN, the
                    \* 'close' event not yet emitted), "closed" (handler ran)
    wsClientType,   \* ws.clientType: "unknown" | "xfetch" | "extension"
    clients,        \* clients[role]: the keys of the Map, in insertion order
    clientData,     \* clientData[role][c]: the value of the Map entry
    pendingRequests,      \* id -> originating connection, NoConn when absent
    pendingRequestsQueue, \* id -> [client, count, delay], client = NoConn when absent
    stats,          \* requestsProcessed / requestsSucceeded / requestsFailed
    crashed,        \* an exception left a callback uncaught: the process is gone
    notices,        \* notices[c]: the last availability frame sent on connection
                    \* c ("extensionAvailable" | "extensionUnavailable"), "none"
                    \* before the first
    \* ---- observation of the broker (history, not program state)
    submitted,      \* submitted[id]: the connection that submitted id (ids are
                    \* unique), NoConn before
    delivered,      \* delivered[c]: ids the broker sent to executor c
    frames,         \* frames[id]: terminal frames sent for id, in order
    retryTicks,     \* retryTicks[id]: retry timer callbacks run for id
    lastEvent,      \* the handler that ran last, with its arguments
    \* ---- requester client (xfetch.js, one Xfetch instance)
    readyState,     \* this.ws.readyState: "connecting" | "open" | "closing" |
                    \* "closed"
    isConnected,    \* this.isConnected
    extensionAvailable, \* this.extensionAvailable
    isIdentified,   \* this.isIdentified
    isIdentifiedTimer,  \* the setInterval behind this.isIdentifiedTimer runs
    queueCheckTimer,    \* the setInterval behind this.queueCheckTimer runs
    heartBeatTimer,     \* the setInterval behind this.heartBeatTimer runs
    requestQueue,   \* this.requestQueue: the queued calls, in order
    giveUpTimers,   \* the calls whose give-up setTimeout is pending
    attempts,       \* attempts[id]: the _sendRequest invocation that allocated
                    \* correlation id `id` (ids in allocation order), with its
                    \* entry in this.pendingRequests and its timers
    reconnectAttempts,  \* this.reconnectAttempts
    reconnectTimer, \* the delay (ms) of the pending setTimeout of onclose, or NoTimer
    cookies,        \* this.cookies: the value the Map holds for each hostname
    \* ---- observation of the client (history, not program state)
    called,         \* the calls of fetch() made so far
    closeCalled,    \* "no": close() was not called; "noop": it was called and
                    \* did nothing; "acted": it was called and ran ws.close()
    identifyTicks,  \* runs of the isIdentifiedTimer callback so far, up to
                    \* IdentifyAttempts
    queueOutcomes,  \* queueOutcomes[call]: rejections by the give-up timer
    \* ---- executor-side channel client (the extension's service worker)
    extSockets,     \* the WebSocket objects created by initWebSocket, in
                    \* order; the last one is `ws`.  state: its readyState as
                    \* for the requester; scheduled: calls of
                    \* scheduleReconnect made for the loss of this socket
                    \* (history)
    extIsConnected, \* isConnected
    extReconnectAttempts,   \* reconnectAttempts
    extReconnectTimer,      \* reconnectTimer holds a timer id (is not null)
    extTimersPending,       \* setTimeout callbacks of scheduleReconnect that
                            \* are neither run nor cleared
    extMissedHeartbeats,    \* missedHeartbeats
    extLastPingReceived     \* lastPingReceived is not null

brokerVars == <<wsState, wsClientType, clients, clientData, pendingRequests,
                pendingRequestsQueue, stats, crashed, notices, submitted,
                delivered, frames, retryTicks, lastEvent>>

clientVars == <<readyState, isConnected, extensionAvailable, isIdentified,
                isIdentifiedTimer, queueCheckTimer, requestQueue, giveUpTimers,
                attempts, reconnectAttempts, reconnectTimer, called,
                identifyTicks, queueOutcomes, cookies, heartBeatTimer,
                closeCalled>>

extensionVars == <<extSockets, extIsConnected, extReconnectAttempts,
                   extReconnectTimer, extTimersPending, extMissedHeartbeats,
                   extLastPingReceived>>

vars == <<brokerVars, clientVars, extensionVars>>

\* ------------------------------------------------------------ data shapes
\* handleClientIdentification: the object stored in clients[role]
NewClientData ==
    [awaitingPong |-> FALSE, missedHeartbeats |-> 0, healthStatus |-> "healthy",
     pongTimeoutId |-> "null", timerNew |-> FALSE, timerOld |-> FALSE,
     unanswered |-> 0]

NoQueueItem == [client |-> NoConn, count |-> 0, delay |-> 0]

\* op: the handler; conn, id: its connection and request id; was: what the
\* handler found (the health of the entry a pong was for)
Event(op, c, id, was) == [op |-> op, conn |-> c, id |-> id, was |-> was]

NoEvent == Event("init", NoConn, 0, "")

\* ------------------------------------------------------- Map operations
\* Map.has(key)
Has(role, c) == \E i \in 1..Len(clients[role]) : clients[role][i] = c

\* Map.set(key, ...): a new key goes last, an existing key keeps its place
MapSet(keys, c) ==
    IF \E i \in 1..Len(keys) : keys[i] = c THEN keys ELSE Append(keys, c)

\* Map.delete(key)
MapDelete(keys, c) == SelectSeq(keys, LAMBDA k : k # c)

Range(seq) == {seq[i] : i \in 1..Len(seq)}

\* ----------------------------------------------------- executor selection
\* a score that ranks a degraded executor above a healthy one
HealthScoreSwapped(h) ==
    IF h = "degraded" THEN 2 ELSE IF h = "healthy" THEN 1 ELSE 0

\* sendToExtension: healthStatus -> healthScore
HealthScore(h) == IF h = "healthy" THEN 2 ELSE IF h = "degraded" THEN 1 ELSE 0

\* sendToExtension: the for loop over clients.extension.entries(), from index i
RECURSIVE ScanBest(_, _, _)
ScanBest(i, bestClient, bestHealth) ==
    IF i > Len(clients["extension"]) THEN bestClient
    ELSE LET c == clients["extension"][i]
             healthScore == HealthScore(clientData["extension"][c].healthStatus)
         IN  IF wsState[c] = "open" /\ healthScore > bestHealth
             THEN IF healthScore = 2 THEN c
                  ELSE ScanBest(i + 1, c, healthScore)
             ELSE ScanBest(i + 1, bestClient, bestHealth)

\* a selection that takes the first open executor, whatever its health
BestExtensionFirstOpen ==
    IF \E i \in 1..Len(clients["extension"]) :
            wsState[clients["extension"][i]] = "open"
    THEN clients["extension"][
            CHOOSE i \in 1..Len(clients["extension"]) :
                /\ wsState[clients["extension"][i]] = "open"
                /\ \A j \in 1..(i - 1) :
                        wsState[clients["extension"][j]] # "open"]
    ELSE NoConn

\* sendToExtension: the client the message is sent to, NoConn when none
BestExtension ==
    IF Len(clients["extension"]) = 0 THEN NoConn ELSE ScanBest(1, NoConn, -1)

\* ------------------------------------------------------------ the router
Frame(to, kind) == [to |-> to, kind |-> kind]

\* a failure branch that forgets to tell the requester
SendErrorDropped(f, id, ws, kind) == f

\* ws.readyState === WebSocket.OPEN && ws.send({id, error, response: null})
SendError(f, id, ws, kind) ==
    IF wsState[ws] = "open" THEN [f EXCEPT ![id] = Append(@, Frame(ws, kind))]
    ELSE f

\* validateExtensionClients: the two branches that fail the request outward
FailRequest(id, ws, pr, q, kind) ==
    /\ pendingRequestsQueue' = [q EXCEPT ![id] = NoQueueItem]
    /\ frames' = SendError(frames, id, ws, kind)
    /\ pendingRequests' = [pr EXCEPT ![id] = NoConn]
    /\ stats' = [stats EXCEPT !.requestsFailed = @ + 1,
                              !.requestsProcessed = @ + 1]
    /\ UNCHANGED delivered

\* a retry ceiling that is off by one (count <= 3)
CanRetryOffByOne(count) == count <= MaxQueueRetries

\* validateExtensionClients: count < 3, the test of its first branch
CanRetry(count) == count < MaxQueueRetries

\* validateExtensionClients(message, ws, clientId, count), entered with the
\* tables as the calling handler left them (pr, q); sendOk is whether
\* bestClient.send(msg) returns (TRUE) or throws (FALSE)
validateExtensionClients(id, ws, count, pr, q, sendOk) ==
    IF Len(clients["extension"]) = 0 /\ CanRetry(count)
    THEN /\ pendingRequestsQueue' =
                [q EXCEPT ![id] = [client |-> ws, count |-> count,
                                   delay |-> RetryDelayMs]]
         /\ pendingRequests' = pr
         /\ UNCHANGED <<stats, delivered, frames>>
    ELSE IF Len(clients["extension"]) = 0
    THEN FailRequest(id, ws, pr, q, "errNoExtension")
    ELSE IF BestExtension # NoConn /\ sendOk
    THEN /\ delivered' = [delivered EXCEPT ![BestExtension] = @ \cup {id}]
         /\ pendingRequests' = pr
         /\ pendingRequestsQueue' = q
         /\ UNCHANGED <<stats, frames>>
    ELSE FailRequest(id, ws, pr, q, "errSendFailed")

\* a submission that is queued without being recorded in-flight
RecordRequestSkipped(pr, id, ws) == pr

\* handleXfetchRequest: pendingRequests.set(message.id, {client: ws, ...})
RecordRequest(pr, id, ws) == [pr EXCEPT ![id] = ws]

\* a response handler that forgets to delete the in-flight entry
DeleteRequestSkipped(pr, id) == pr

\* handleExtensionResponse: pendingRequests.delete(message.id)
DeleteRequest(pr, id) == [pr EXCEPT ![id] = NoConn]

\* a retry callback that forgets to delete the queue entry
QueueDeleteSkipped(q, id) == q

\* the retry callback: pendingRequestsQueue.delete(message.id)
QueueDelete(q, id) == [q EXCEPT ![id] = NoQueueItem]

\* ws.on('message') -> handleXfetchRequest: {url, options, id} from a
\* connection whose ws.clientType is 'xfetch'
HandleXfetchRequest(c, id, sendOk) ==
    /\ ~crashed
    /\ wsState[c] = "open"
    /\ wsClientType[c] = "xfetch"
    /\ submitted[id] = NoConn
    /\ submitted' = [submitted EXCEPT ![id] = c]
    /\ validateExtensionClients(id, c, 0,
            RecordRequest(pendingRequests, id, c), pendingRequestsQueue, sendOk)
    /\ lastEvent' = Event("request", c, id, "")
    /\ UNCHANGED <<wsState, wsClientType, clients, clientData, crashed,
                   retryTicks>>
    /\ UNCHANGED notices
    /\ UNCHANGED clientVars
    /\ UNCHANGED extensionVars

\* the setTimeout callback of validateExtensionClients (2000 ms)
RetryTick(id, sendOk) ==
    /\ ~crashed
    /\ pendingRequestsQueue[id].client # NoConn
    /\ retryTicks' = [retryTicks EXCEPT ![id] = @ + 1]
    /\ validateExtensionClients(id, pendingRequestsQueue[id].client,
            pendingRequestsQueue[id].count + 1, pendingRequests,
            QueueDelete(pendingRequestsQueue, id), sendOk)
    /\ lastEvent' = Event("retry", pendingRequestsQueue[id].client, id, "")
    /\ UNCHANGED <<wsState, wsClientType, clients, clientData, crashed,
                   submitted>>
    /\ UNCHANGED notices
    /\ UNCHANGED clientVars
    /\ UNCHANGED extensionVars

\* a forward that does not look at the readyState of the requester
ForwardFrameUnguarded(f, id, ws, kind, sendOk) ==
    [f EXCEPT ![id] = Append(@, Frame(ws, kind))]

\* sendToXfetch(client, message); sendOk is whether client.send(msg) returns
\* (TRUE) or throws (FALSE)
ForwardFrame(f, id, ws, kind, sendOk) ==
    IF wsState[ws] = "open" /\ sendOk
    THEN [f EXCEPT ![id] = Append(@, Frame(ws, kind))]
    ELSE f

\* a lookup that answers from the record of who submitted the id
PendingRequestStale(pr, id) == submitted[id]

\* handleExtensionResponse: pendingRequests.get(message.id), NoConn when the
\* id has no entry
PendingRequest(pr, id) == pr[id]

\* ws.on('message') -> handleExtensionResponse: {id, response|error} from a
\* connection whose ws.clientType is 'extension'.  An executor answers only
\* ids it was sent, possibly more than once.
HandleExtensionResponse(c, id, kind, sendOk) ==
    /\ ~crashed
    /\ wsState[c] = "open"
    /\ wsClientType[c] = "extension"
    /\ id \in delivered[c]
    /\ IF PendingRequest(pendingRequests, id) # NoConn
       THEN /\ frames' = ForwardFrame(frames, id,
                        PendingRequest(pendingRequests, id), kind, sendOk)
            /\ stats' = [stats EXCEPT
                    !.requestsProcessed = @ + 1,
                    !.requestsSucceeded = IF kind = "response" THEN @ + 1 ELSE @,
                    !.requestsFailed = IF kind = "response" THEN @ ELSE @ + 1]
            /\ pendingRequests' = DeleteRequest(pendingRequests, id)
       ELSE UNCHANGED <<frames, stats, pendingRequests>>
    /\ lastEvent' = Event(IF PendingRequest(pendingRequests, id) # NoConn THEN "response"
                           ELSE "lateResponse", c, id, "")
    /\ UNCHANGED <<wsState, wsClientType, clients, clientData,
                   pendingRequestsQueue, crashed, submitted, delivered,
                   retryTicks>>
    /\ UNCHANGED notices
    /\ UNCHANGED clientVars
    /\ UNCHANGED extensionVars

\* ws.on('message') for a frame that is no message of the sender's role.
\* shape "unparseable": JSON.parse throws (or the value is null), the catch
\* logs; "noShape": an object with none of type, clientType, id; "request":
\* {url, options, id}; "outcome": {id, response | error}.  A "request" needs
\* ws.clientType 'xfetch', but any frame with an id from a connection whose
\* ws.clientType is 'extension' reaches handleExtensionResponse.  An executor
\* names only ids it was sent (it echoes a request).
MalformedFrame(c, shape, id, sendOk) ==
    /\ ~crashed
    /\ wsState[c] = "open"
    /\ wsClientType[c] = "extension" => id \in delivered[c]
    /\ shape = "request" => wsClientType[c] # "xfetch"
    /\ shape = "outcome" => wsClientType[c] # "extension"
    /\ IF /\ shape = "request" /\ wsClientType[c] = "extension"
          /\ PendingRequest(pendingRequests, id) # NoConn
       THEN /\ frames' = ForwardFrame(frames, id,
                        PendingRequest(pendingRequests, id), "request", sendOk)
            /\ stats' = [stats EXCEPT !.requestsProcessed = @ + 1,
                                      !.requestsFailed = @ + 1]
            /\ pendingRequests' = DeleteRequest(pendingRequests, id)
       ELSE UNCHANGED <<frames, stats, pendingRequests>>
    /\ lastEvent' = Event("malformed", c, 0, "")
    /\ UNCHANGED <<wsState, wsClientType, clients, clientData,
                   pendingRequestsQueue, crashed, submitted, delivered,
                   retryTicks>>
    /\ UNCHANGED notices
    /\ UNCHANGED clientVars
    /\ UNCHANGED extensionVars

\* --------------------------------------------------------- the registry
\* wss.on('connection'): connections are accepted in the order of their ids
Connection(c) ==
    /\ ~crashed
    /\ wsState[c] = "none"
    /\ \A d \in Conn : d < c => wsState[d] # "none"
    /\ wsState' = [wsState EXCEPT ![c] = "open"]
    /\ lastEvent' = Event("connection", c, 0, "")
    /\ UNCHANGED <<wsClientType, clients, clientData, pendingRequests,
                   pendingRequestsQueue, stats, crashed, submitted, delivered,
                   frames, retryTicks>>
    /\ UNCHANGED notices
    /\ UNCHANGED clientVars
    /\ UNCHANGED extensionVars

\* the type of the availability frame
Availability(available) ==
    IF available THEN "extensionAvailable" ELSE "extensionUnavailable"

\* notifyXfetchClients(available): the frame goes to every entry of
\* clients.xfetch whose socket is OPEN (ready: the readyState of each socket)
notifyXfetchClients(n, xfetch, ready, available) ==
    [c \in DOMAIN n |->
        IF c \in Range(xfetch) /\ ready[c] = "open"
        THEN Availability(available) ELSE n[c]]

\* handleClientIdentification: clients.extension.size === 1, the test that
\* picks the frame sent to an identifying requester and that makes an
\* identifying executor notify the requesters
SizeIsOne(extension) == Len(extension) = 1

\* ws.on('message') -> handleClientIdentification: {clientType: role}
HandleClientIdentification(c, role) ==
    /\ ~crashed
    /\ wsState[c] = "open"
    /\ wsClientType' = [wsClientType EXCEPT ![c] = role]
    /\ clients' = [clients EXCEPT ![role] = MapSet(@, c)]
    /\ clientData' = [clientData EXCEPT ![role][c] = NewClientData]
    /\ notices' =
            IF role = "xfetch"
            THEN [notices EXCEPT ![c] =
                    Availability(SizeIsOne(clients'["extension"]))]
            ELSE IF SizeIsOne(clients'["extension"])
            THEN notifyXfetchClients(notices, clients'["xfetch"], wsState, TRUE)
            ELSE notices
    /\ lastEvent' = Event("identify", c, 0, "")
    /\ UNCHANGED <<wsState, pendingRequests, pendingRequestsQueue, stats,
                   crashed, submitted, delivered, frames, retryTicks>>
    /\ UNCHANGED clientVars
    /\ UNCHANGED extensionVars

\* the socket leaves readyState OPEN (peer gone, close handshake begun); the
\* 'close' event is emitted on a later turn of the event loop
SocketClosing(c) ==
    /\ ~crashed
    /\ wsState[c] = "open"
    /\ wsState' = [wsState EXCEPT ![c] = "closing"]
    /\ lastEvent' = Event("closing", c, 0, "")
    /\ UNCHANGED <<wsClientType, clients, clientData, pendingRequests,
                   pendingRequestsQueue, stats, crashed, submitted, delivered,
                   frames, retryTicks>>
    /\ UNCHANGED notices
    /\ UNCHANGED clientVars
    /\ UNCHANGED extensionVars

\* the loop of ws.on('close') and of checkClientHealth over pendingRequests:
\* entries whose request.client is one of the connections in `gone` are deleted
PurgeRequests(pr, gone) ==
    [id \in ReqId |-> IF pr[id] \in gone THEN NoConn ELSE pr[id]]

\* ws.on('close').  clients[ws.clientType] is undefined for 'unknown': the
\* handler throws a TypeError at its second statement, nothing catches it.
OnClose(c) ==
    /\ ~crashed
    /\ wsState[c] \in {"open", "closing"}
    /\ wsState' = [wsState EXCEPT ![c] = "closed"]
    /\ lastEvent' = Event("close", c, 0, "")
    /\ IF wsClientType[c] = "unknown"
       THEN /\ crashed' = TRUE
            /\ UNCHANGED <<clients, clientData, pendingRequests, notices>>
       ELSE /\ clients' = [clients EXCEPT ![wsClientType[c]] = MapDelete(@, c)]
            /\ clientData' =
                    [clientData EXCEPT ![wsClientType[c]][c] = NewClientData]
            /\ pendingRequests' = PurgeRequests(pendingRequests, {c})
            /\ notices' =
                    IF /\ wsClientType[c] = "extension"
                       /\ Len(clients'["extension"]) = 0
                    THEN notifyXfetchClients(notices, clients'["xfetch"],
                                             wsState', FALSE)
                    ELSE notices
            /\ UNCHANGED crashed
    /\ UNCHANGED <<wsClientType, pendingRequestsQueue, stats, submitted,
                   delivered, frames, retryTicks>>
    /\ UNCHANGED clientVars
    /\ UNCHANGED extensionVars

\* the cleanup setInterval (every 2 minutes): in-flight entries older than 2
\* minutes are deleted.  A queued request is at most 3 * 2 s old, so only
\* entries that are no longer queued can have expired.
CleanupInterval(expired) ==
    /\ ~crashed
    /\ expired # {}
    /\ \A id \in expired : /\ pendingRequests[id] # NoConn
                           /\ pendingRequestsQueue[id].client = NoConn
    /\ pendingRequests' = [id \in ReqId |->
            IF id \in expired THEN NoConn ELSE pendingRequests[id]]
    /\ lastEvent' = Event("cleanup", NoConn, 0, "")
    /\ UNCHANGED <<wsState, wsClientType, clients, clientData,
                   pendingRequestsQueue, stats, crashed, submitted, delivered,
                   frames, retryTicks>>
    /\ UNCHANGED notices
    /\ UNCHANGED clientVars
    /\ UNCHANGED extensionVars

\* -------------------------------------------------------- the heartbeat
\* Pings go out every 3000 ms and a pong timeout runs 5000 ms, so the timeout
\* set at one tick fires between the next tick and the one after it.  Each
\* entry therefore has at most two timeouts pending: the one set at the last
\* tick (timerNew) and the one set at the tick before (timerOld), which fires
\* or is cleared before the next tick.  pongTimeoutId names the timeout set
\* last: "new", "old", "fired" (it ran; the field keeps its id) or "null".

\* one more heartbeat tick has passed over the entry's timeouts
Aged(d) ==
    [d EXCEPT !.timerOld = d.timerNew, !.timerNew = FALSE,
              !.pongTimeoutId = IF @ = "new" THEN "old" ELSE @]

\* sendHeartbeats: the body of the loop for one entry
PingEntry(c, d) ==
    IF wsState[c] = "open"
    THEN [Aged(d) EXCEPT !.awaitingPong = TRUE, !.pongTimeoutId = "new",
                         !.timerNew = TRUE,
                         !.unanswered = IF @ < MaxUnanswered THEN @ + 1 ELSE @]
    ELSE Aged(d)

\* checkClientHealth: the entries of a role it removes
Unhealthy(role) ==
    {c \in Range(clients[role]) :
        clientData[role][c].missedHeartbeats >= MaxMissed}

\* the heartbeat setInterval: sendHeartbeats and checkClientHealth, for
\* 'extension' and then 'xfetch'
HeartbeatInterval ==
    /\ ~crashed
    /\ \A role \in Roles : \A c \in Range(clients[role]) :
            ~clientData[role][c].timerOld
    /\ LET gone == Unhealthy("extension") \cup Unhealthy("xfetch")
           purged == {id \in ReqId : pendingRequests[id] \in gone}
       IN  /\ wsState' = [c \in Conn |->
                    IF c \in gone /\ wsState[c] = "open" THEN "closing"
                    ELSE wsState[c]]
           /\ clients' = [role \in Roles |->
                    SelectSeq(clients[role], LAMBDA c : c \notin Unhealthy(role))]
           /\ clientData' = [role \in Roles |-> [c \in Conn |->
                    IF c \in Range(clients[role]) /\ c \notin Unhealthy(role)
                    THEN PingEntry(c, clientData[role][c])
                    ELSE NewClientData]]
           /\ pendingRequests' = PurgeRequests(pendingRequests, gone)
           /\ stats' = [stats EXCEPT !.requestsFailed = @ + Cardinality(purged)]
    /\ lastEvent' = Event("heartbeat", NoConn, 0, "")
    /\ UNCHANGED <<wsClientType, pendingRequestsQueue, crashed, submitted,
                   delivered, frames, retryTicks>>
    /\ UNCHANGED notices
    /\ UNCHANGED clientVars
    /\ UNCHANGED extensionVars

\* a pong timeout that counts a miss without looking at awaitingPong
MissedPongUnconditional(c, d) ==
    IF wsState[c] = "open"
    THEN [d EXCEPT !.missedHeartbeats = @ + 1, !.awaitingPong = FALSE,
                   !.healthStatus = IF d.missedHeartbeats + 1 >= MaxMissed
                                    THEN "critical" ELSE "degraded"]
    ELSE d

\* the setTimeout callback of sendHeartbeats (5000 ms), on one entry
MissedPong(c, d) ==
    IF d.awaitingPong /\ wsState[c] = "open"
    THEN [d EXCEPT !.missedHeartbeats = @ + 1, !.awaitingPong = FALSE,
                   !.healthStatus = IF d.missedHeartbeats + 1 >= MaxMissed
                                    THEN "critical" ELSE "degraded"]
    ELSE d

PongTimeout(role, c) ==
    /\ ~crashed
    /\ Has(role, c)
    /\ clientData[role][c].timerOld
    /\ clientData' = [clientData EXCEPT ![role][c] =
            [MissedPong(c, @) EXCEPT !.timerOld = FALSE,
                    !.pongTimeoutId = IF @ = "old" THEN "fired" ELSE @]]
    /\ lastEvent' = Event("pongTimeout", c, 0, "")
    /\ UNCHANGED <<wsState, wsClientType, clients, pendingRequests,
                   pendingRequestsQueue, stats, crashed, submitted, delivered,
                   frames, retryTicks>>
    /\ UNCHANGED notices
    /\ UNCHANGED clientVars
    /\ UNCHANGED extensionVars

\* a pong handler that restores health without looking at the miss count
PongReceivedAlwaysHealthy(d) ==
    [d EXCEPT !.timerNew = IF d.pongTimeoutId = "new" THEN FALSE ELSE @,
              !.timerOld = IF d.pongTimeoutId = "old" THEN FALSE ELSE @,
              !.pongTimeoutId = "null",
              !.awaitingPong = FALSE,
              !.healthStatus = "healthy",
              !.missedHeartbeats = 0,
              !.unanswered = IF @ > 0 THEN @ - 1 ELSE 0]

\* handlePongResponse: the update of the entry
PongReceived(d) ==
    [d EXCEPT !.timerNew = IF d.pongTimeoutId = "new" THEN FALSE ELSE @,
              !.timerOld = IF d.pongTimeoutId = "old" THEN FALSE ELSE @,
              !.pongTimeoutId = "null",
              !.awaitingPong = FALSE,
              !.healthStatus = IF d.missedHeartbeats > 0
                                  /\ d.missedHeartbeats < MaxMissed
                               THEN "healthy" ELSE @,
              !.missedHeartbeats = 0,
              !.unanswered = IF @ > 0 THEN @ - 1 ELSE 0]

\* ws.on('message') -> handlePongResponse: {type: 'pong'}
HandlePongResponse(c) ==
    /\ ~crashed
    /\ wsState[c] = "open"
    /\ IF wsClientType[c] # "unknown" /\ Has(wsClientType[c], c)
       THEN clientData' = [clientData EXCEPT ![wsClientType[c]][c] =
                                PongReceived(@)]
       ELSE UNCHANGED clientData
    /\ lastEvent' = Event("pong", c, 0,
            IF wsClientType[c] # "unknown" /\ Has(wsClientType[c], c)
            THEN clientData[wsClientType[c]][c].healthStatus ELSE "unregistered")
    /\ UNCHANGED <<wsState, wsClientType, clients, pendingRequests,
                   pendingRequestsQueue, stats, crashed, submitted, delivered,
                   frames, retryTicks>>
    /\ UNCHANGED notices
    /\ UNCHANGED clientVars
    /\ UNCHANGED extensionVars

\* ================================================== the requester client
\* One Xfetch instance.  Its socket is created by the constructor; reconnect()
\* calls this.ws.close() and, ws.close() returning normally, nothing else: the
\* statements that would create a new socket are inside its catch block.
\* The heartbeat setInterval (sendHeartbeat), sendPong and the
\* identification setInterval only send frames: they change no field that a
\* handler reads, and are not actions here.

\* a retry ceiling that is off by one (retryCount <= maxRetries)
RetriesLeftOffByOne(retryCount) == retryCount <= MaxRetries

\* _sendRequest: retryCount < this.config.maxRetries
RetriesLeft(retryCount) == retryCount < MaxRetries

\* no setTimeout is pending (the delay of no timer)
NoTimer == 0

\* a catch branch that leaves the per-attempt timeout armed
AttemptTimeoutKept(call, retryCount, sendOk, isOpen) ==
    [call |-> call, retryCount |-> retryCount, pending |-> TRUE,
     timer |-> TRUE,
     retryTimer |-> ~sendOk /\ RetriesLeft(retryCount),
     retryDelay |-> IF ~sendOk /\ RetriesLeft(retryCount)
                    THEN SendRetryDelayMs ELSE NoTimer,
     threw |-> ~sendOk,
     sent |-> sendOk /\ isOpen,
     answered |-> FALSE,
     outcomes |-> IF ~sendOk /\ ~RetriesLeft(retryCount)
                  THEN <<"sendFailed">> ELSE <<>>]

\* the entry _sendRequest makes for the id it allocates
\*   pending: id is a key of this.pendingRequests
\*   timer: the per-attempt setTimeout (config.timeout) is pending
\*   retryTimer: the setTimeout(..., 1000) of the catch branch is pending
\*   retryDelay: the delay that setTimeout was called with, ms (NoTimer when
\*     the catch branch made no such call)
\*   threw: this.ws.send(message) threw
\*   sent: this.ws.send(message) returned and the socket was OPEN
\*   answered: a frame {id, ...} for this id reached onmessage
\*   outcomes: the calls of resolve / reject made for this id, in order
Attempt(call, retryCount, sendOk, isOpen) ==
    [call |-> call, retryCount |-> retryCount, pending |-> TRUE,
     timer |-> sendOk,
     retryTimer |-> ~sendOk /\ RetriesLeft(retryCount),
     retryDelay |-> IF ~sendOk /\ RetriesLeft(retryCount)
                    THEN SendRetryDelayMs ELSE NoTimer,
     threw |-> ~sendOk,
     sent |-> sendOk /\ isOpen,
     answered |-> FALSE,
     outcomes |-> IF ~sendOk /\ ~RetriesLeft(retryCount)
                  THEN <<"sendFailed">> ELSE <<>>]

\* _sendRequest(url, options, resolve, reject, retryCount): requestId =
\* uuidv4() is the next unused id; sendOk is whether this.ws.send returns
sendRequest(att, call, retryCount, sendOk, isOpen) ==
    Append(att, Attempt(call, retryCount, sendOk, isOpen))

Ids == DOMAIN attempts

\* the drained entries sent last in, first out
RECURSIVE sendAllReversed(_, _, _)
sendAllReversed(queue, att, sendOk) ==
    IF queue = <<>> THEN att
    ELSE sendRequest(sendAllReversed(Tail(queue), att, sendOk), Head(queue),
                     0, sendOk[Head(queue)], TRUE)

\* processQueue: queue.forEach(... this._sendRequest(..., retryCount)); the
\* retryCount of an entry is the 0 that fetch stored in it
RECURSIVE sendAll(_, _, _)
sendAll(queue, att, sendOk) ==
    IF queue = <<>> THEN att
    ELSE sendAll(Tail(queue),
                 sendRequest(att, Head(queue), 0, sendOk[Head(queue)], TRUE),
                 sendOk)

\* processQueue(), entered with the fields as the calling handler left them
processQueue(connected, isOpen, available, timers, sendOk) ==
    IF requestQueue # <<>> /\ connected /\ isOpen /\ available
    THEN /\ attempts' = sendAll(requestQueue, attempts, sendOk)
         /\ requestQueue' = <<>>
         /\ giveUpTimers' = {}
    ELSE /\ giveUpTimers' = timers
         /\ UNCHANGED <<attempts, requestQueue>>

\* this.ws.close() as reconnect() calls it
reconnect(rs) == IF rs \in {"connecting", "open"} THEN "closing" ELSE rs

\* fetch dispatching before the 'identified' frame has arrived
canDispatchUnidentified ==
    isConnected /\ readyState = "open" /\ extensionAvailable

\* fetch: the condition of its if, "all systems give green light"
canDispatch ==
    isConnected /\ readyState = "open" /\ extensionAvailable /\ isIdentified

\* fetch(url, options): the executor of the Promise it returns
fetch(call, sendOk) ==
    /\ call \notin called
    /\ called' = called \cup {call}
    /\ IF canDispatch
       THEN /\ attempts' = sendRequest(attempts, call, 0, sendOk, TRUE)
            /\ UNCHANGED <<requestQueue, readyState, isIdentifiedTimer,
                           giveUpTimers>>
       ELSE /\ requestQueue' = Append(requestQueue, call)
            /\ readyState' = IF ~isConnected /\ readyState # "connecting"
                             THEN reconnect(readyState) ELSE readyState
            /\ isIdentifiedTimer' = (isIdentifiedTimer \/ ~isIdentified)
            /\ giveUpTimers' = giveUpTimers \cup {call}
            /\ UNCHANGED attempts
    /\ UNCHANGED <<isConnected, extensionAvailable, isIdentified,
                   queueCheckTimer, reconnectAttempts, reconnectTimer,
                   queueOutcomes>>
    /\ UNCHANGED <<identifyTicks, cookies>>
    /\ UNCHANGED <<heartBeatTimer, closeCalled>>
    /\ UNCHANGED brokerVars
    /\ UNCHANGED extensionVars

\* the message of the rejection the give-up timer makes
giveUpMessage ==
    IF isConnected /\ ~extensionAvailable THEN "noExtension"
    ELSE IF ~isConnected THEN "notConnected" ELSE "timeout"

\* fetch: the giveUpTimer setTimeout callback (config.timeout)
giveUpTimer(call) ==
    /\ call \in giveUpTimers
    /\ giveUpTimers' = giveUpTimers \ {call}
    /\ IF \E i \in 1..Len(requestQueue) : requestQueue[i] = call
       THEN /\ requestQueue' = SelectSeq(requestQueue, LAMBDA q : q # call)
            /\ queueOutcomes' =
                    [queueOutcomes EXCEPT ![call] = Append(@, giveUpMessage)]
       ELSE UNCHANGED <<requestQueue, queueOutcomes>>
    /\ UNCHANGED <<readyState, isConnected, extensionAvailable, isIdentified,
                   isIdentifiedTimer, queueCheckTimer, attempts,
                   reconnectAttempts, reconnectTimer, called>>
    /\ UNCHANGED <<identifyTicks, cookies>>
    /\ UNCHANGED <<heartBeatTimer, closeCalled>>
    /\ UNCHANGED brokerVars
    /\ UNCHANGED extensionVars

\* the queueCheckTimer setInterval callback (config.queueCheckInterval)
queueCheckInterval(sendOk) ==
    /\ queueCheckTimer
    /\ processQueue(isConnected, readyState = "open", extensionAvailable,
                    giveUpTimers, sendOk)
    /\ UNCHANGED <<readyState, isConnected, extensionAvailable, isIdentified,
                   isIdentifiedTimer, queueCheckTimer, reconnectAttempts,
                   reconnectTimer, called, queueOutcomes>>
    /\ UNCHANGED <<identifyTicks, cookies>>
    /\ UNCHANGED <<heartBeatTimer, closeCalled>>
    /\ UNCHANGED brokerVars
    /\ UNCHANGED extensionVars

\* ws.onopen; identOk is whether the send of sendClientIdentification returns
onopen(identOk, sendOk) ==
    /\ readyState = "connecting"
    /\ readyState' = "open"
    /\ isConnected' = TRUE
    /\ reconnectAttempts' = 0
    /\ isIdentifiedTimer' = (isIdentifiedTimer \/ ~identOk)
    /\ processQueue(TRUE, TRUE, extensionAvailable, {}, sendOk)
    /\ UNCHANGED <<extensionAvailable, isIdentified, queueCheckTimer,
                   reconnectTimer, called, queueOutcomes>>
    /\ UNCHANGED <<identifyTicks, cookies>>
    /\ UNCHANGED <<heartBeatTimer, closeCalled>>
    /\ UNCHANGED brokerVars
    /\ UNCHANGED extensionVars

\* ws.onmessage, data.type === 'identified'
onmessageIdentified ==
    /\ readyState \in {"open", "closing"}
    /\ isIdentified' = TRUE
    /\ isIdentifiedTimer' = FALSE
    /\ UNCHANGED <<readyState, isConnected, extensionAvailable,
                   queueCheckTimer, requestQueue, giveUpTimers, attempts,
                   reconnectAttempts, reconnectTimer, called, queueOutcomes>>
    /\ UNCHANGED <<identifyTicks, cookies>>
    /\ UNCHANGED <<heartBeatTimer, closeCalled>>
    /\ UNCHANGED brokerVars
    /\ UNCHANGED extensionVars

\* ws.onmessage, data.type === 'extensionAvailable'
onmessageExtensionAvailable(sendOk) ==
    /\ readyState \in {"open", "closing"}
    /\ extensionAvailable' = TRUE
    /\ processQueue(isConnected, readyState = "open", TRUE, giveUpTimers,
                    sendOk)
    /\ UNCHANGED <<readyState, isConnected, isIdentified, isIdentifiedTimer,
                   queueCheckTimer, reconnectAttempts, reconnectTimer, called,
                   queueOutcomes>>
    /\ UNCHANGED <<identifyTicks, cookies>>
    /\ UNCHANGED <<heartBeatTimer, closeCalled>>
    /\ UNCHANGED brokerVars
    /\ UNCHANGED extensionVars

\* ws.onmessage, data.type === 'extensionUnavailable'
onmessageExtensionUnavailable ==
    /\ readyState \in {"open", "closing"}
    /\ extensionAvailable' = FALSE
    /\ UNCHANGED <<readyState, isConnected, isIdentified, isIdentifiedTimer,
                   queueCheckTimer, requestQueue, giveUpTimers, attempts,
                   reconnectAttempts, reconnectTimer, called, queueOutcomes>>
    /\ UNCHANGED <<identifyTicks, cookies>>
    /\ UNCHANGED <<heartBeatTimer, closeCalled>>
    /\ UNCHANGED brokerVars
    /\ UNCHANGED extensionVars

\* ------------------------------------------------------------- cookies
\* urls: new URL(url).hostname is the key of this.cookies
Hosts == 1..NHosts
Urls == [hostname : Hosts, pathname : {"/", "/a"}]
Hostname(url) == url.hostname

\* the [{name, value}, ...] arrays setCookies is called with
Cookie == [name : {"sid"}, value : 1..NCookieValues]
CookieLists == UNION {[1..n -> Cookie] : n \in 0..MaxCookies}

\* JavaScript values: undefined, an Array with its elements, a plain object
\* with its own enumerable properties (keyed by strings)
Undefined == [type |-> "undefined", items |-> <<>>, props |-> <<>>]
Array(items) == [type |-> "array", items |-> items, props |-> <<>>]

\* {...cookies} for an Array: an object with the properties "0", "1", ... and
\* no length
ObjectSpread(items) ==
    [type |-> "object", items |-> <<>>,
     props |-> [k \in {ToString(i - 1) : i \in 1..Len(items)} |->
                    items[CHOOSE i \in 1..Len(items) : ToString(i - 1) = k]]]

\* Array.from(v): the elements of an Array; for an object that is not
\* iterable, the properties "0" .. length - 1, length missing counting as 0
ArrayFrom(v) ==
    IF v.type = "array" THEN v.items
    ELSE LET len == IF "length" \in DOMAIN v.props THEN v.props["length"]
                    ELSE 0
         IN  [i \in 1..len |-> v.props[ToString(i - 1)]]

\* getCookies(url): Array.from(this.cookies.get(domain) || [])
getCookies(store, url) ==
    LET v == store[Hostname(url)]
    IN  ArrayFrom(IF v.type = "undefined" THEN Array(<<>>) ELSE v)

\* setCookies(url, cookies): this.cookies.set(domain, {...cookies})
setCookiesIn(store, url, list) ==
    [store EXCEPT ![Hostname(url)] = ObjectSpread(list)]

\* setCookies(url, cookies) called on the instance
setCookies(url, list) ==
    /\ cookies' = setCookiesIn(cookies, url, list)
    /\ UNCHANGED <<readyState, isConnected, extensionAvailable, isIdentified,
                   isIdentifiedTimer, queueCheckTimer, requestQueue,
                   giveUpTimers, attempts, reconnectAttempts, reconnectTimer,
                   called, identifyTicks, queueOutcomes>>
    /\ UNCHANGED <<heartBeatTimer, closeCalled>>
    /\ UNCHANGED brokerVars
    /\ UNCHANGED extensionVars

\* response.cookies: absent, or an array
NoCookies == [present |-> FALSE, items |-> <<>>]
SomeCookies(list) == [present |-> TRUE, items |-> list]

\* ws.onmessage, a frame {id, response, error} whose id is a key of
\* this.pendingRequests.  kind "response": {id, response: {...}}; kind
\* "error": {id, error, response: null}, for which response.cookies throws a
\* TypeError after reject(error) and the catch skips the delete.
Settled(a, kind) ==
    [a EXCEPT !.answered = TRUE,
              !.timer = FALSE,
              !.outcomes = Append(@, IF kind = "error" THEN "errorFrame"
                                     ELSE "resolved"),
              !.pending = (kind = "error")]

\* ws.onmessage, a frame {id, response, error}.  The broker sends one for an
\* id it received, at most once.
\* url, resCookies: response.url and response.cookies,
\* read after resolve(response) when the frame carries a response.
onmessageResponse(id, kind, url, resCookies) ==
    /\ readyState \in {"open", "closing"}
    /\ id \in Ids
    /\ attempts[id].sent /\ ~attempts[id].answered
    /\ attempts' = [attempts EXCEPT ![id] =
            IF @.pending THEN Settled(@, kind) ELSE [@ EXCEPT !.answered = TRUE]]
    /\ cookies' = IF attempts[id].pending /\ kind = "response"
                     /\ resCookies.present
                  THEN setCookiesIn(cookies, url, resCookies.items)
                  ELSE cookies
    /\ UNCHANGED <<readyState, isConnected, extensionAvailable, isIdentified,
                   isIdentifiedTimer, queueCheckTimer, requestQueue,
                   giveUpTimers, reconnectAttempts, reconnectTimer, called,
                   queueOutcomes>>
    /\ UNCHANGED identifyTicks
    /\ UNCHANGED <<heartBeatTimer, closeCalled>>
    /\ UNCHANGED brokerVars
    /\ UNCHANGED extensionVars

\* _sendRequest: the setTimeout callback, its first statement
TimedOut(a) == [a EXCEPT !.timer = FALSE, !.pending = FALSE]

\* _sendRequest: the setTimeout callback (config.timeout) of attempt id
attemptTimeout(id, sendOk) ==
    /\ id \in Ids
    /\ attempts[id].timer
    /\ LET a == attempts[id]
           att == [attempts EXCEPT ![id] = TimedOut(@)]
       IN  attempts' =
            IF RetriesLeft(a.retryCount)
            THEN sendRequest(att, a.call, a.retryCount + 1, sendOk,
                             readyState = "open")
            ELSE [att EXCEPT ![id].outcomes = Append(@, "maxRetries")]
    /\ UNCHANGED <<readyState, isConnected, extensionAvailable, isIdentified,
                   isIdentifiedTimer, queueCheckTimer, requestQueue,
                   giveUpTimers, reconnectAttempts, reconnectTimer, called,
                   queueOutcomes>>
    /\ UNCHANGED <<identifyTicks, cookies>>
    /\ UNCHANGED <<heartBeatTimer, closeCalled>>
    /\ UNCHANGED brokerVars
    /\ UNCHANGED extensionVars

\* _sendRequest: the setTimeout callback (1000 ms) of the catch branch
sendRetryTimer(id, sendOk) ==
    /\ id \in Ids
    /\ attempts[id].retryTimer
    /\ attempts' = sendRequest([attempts EXCEPT ![id].retryTimer = FALSE],
                               attempts[id].call, attempts[id].retryCount + 1,
                               sendOk, readyState = "open")
    /\ UNCHANGED <<readyState, isConnected, extensionAvailable, isIdentified,
                   isIdentifiedTimer, queueCheckTimer, requestQueue,
                   giveUpTimers, reconnectAttempts, reconnectTimer, called,
                   queueOutcomes>>
    /\ UNCHANGED <<identifyTicks, cookies>>
    /\ UNCHANGED <<heartBeatTimer, closeCalled>>
    /\ UNCHANGED brokerVars
    /\ UNCHANGED extensionVars

\* the socket leaves readyState OPEN (the broker closed or terminated it);
\* the 'close' event is emitted on a later turn of the event loop
transportClosing ==
    /\ readyState = "open"
    /\ readyState' = "closing"
    /\ UNCHANGED <<isConnected, extensionAvailable, isIdentified,
                   isIdentifiedTimer, queueCheckTimer, requestQueue,
                   giveUpTimers, attempts, reconnectAttempts, reconnectTimer,
                   called, queueOutcomes>>
    /\ UNCHANGED <<identifyTicks, cookies>>
    /\ UNCHANGED <<heartBeatTimer, closeCalled>>
    /\ UNCHANGED brokerVars
    /\ UNCHANGED extensionVars

\* close(): it acts only if this.isConnected and the socket is OPEN
close ==
    /\ IF isConnected /\ readyState = "open"
       THEN /\ heartBeatTimer' = FALSE
            /\ queueCheckTimer' = FALSE
            /\ readyState' = "closing"
            /\ closeCalled' = "acted"
       ELSE /\ closeCalled' = IF closeCalled = "no" THEN "noop" ELSE closeCalled
            /\ UNCHANGED <<heartBeatTimer, queueCheckTimer, readyState>>
    /\ UNCHANGED <<isConnected, extensionAvailable, isIdentified,
                   isIdentifiedTimer, requestQueue, giveUpTimers, attempts,
                   reconnectAttempts, reconnectTimer, called, queueOutcomes>>
    /\ UNCHANGED <<identifyTicks, cookies>>
    /\ UNCHANGED brokerVars
    /\ UNCHANGED extensionVars

Min(a, b) == IF a < b THEN a ELSE b

\* the delay growing with every attempt, without the cap
ReconnectDelayUncapped(n) == ReconnectDelayMs * n

\* ws.onclose: const delay = this.reconnectDelay * Math.min(n, 5), n being
\* this.reconnectAttempts after its increment
ReconnectDelay(n) == ReconnectDelayMs * Min(n, 5)

\* ws.onclose: the forEach over Object.keys(this.pendingRequests), one entry
Rejected(a) ==
    IF a.pending
    THEN [a EXCEPT !.timer = FALSE, !.pending = FALSE,
                   !.outcomes = Append(@, "closed")]
    ELSE a

\* ws.onclose (the handshake failed, or the connection ended)
onclose ==
    /\ readyState \in {"connecting", "open", "closing"}
    /\ readyState' = "closed"
    /\ isConnected' = FALSE
    /\ extensionAvailable' = FALSE
    /\ attempts' = [id \in Ids |-> Rejected(attempts[id])]
    /\ IF reconnectAttempts < MaxRetries
       THEN /\ reconnectAttempts' = reconnectAttempts + 1
            /\ reconnectTimer' = ReconnectDelay(reconnectAttempts + 1)
       ELSE UNCHANGED <<reconnectAttempts, reconnectTimer>>
    /\ UNCHANGED <<isIdentified, isIdentifiedTimer, queueCheckTimer,
                   requestQueue, giveUpTimers, called, queueOutcomes>>
    /\ UNCHANGED <<identifyTicks, cookies>>
    /\ UNCHANGED <<heartBeatTimer, closeCalled>>
    /\ UNCHANGED brokerVars
    /\ UNCHANGED extensionVars

\* ws.onclose: the setTimeout callback, () => this.reconnect()
reconnectTimeout ==
    /\ reconnectTimer # NoTimer
    /\ reconnectTimer' = NoTimer
    /\ readyState' = reconnect(readyState)
    /\ UNCHANGED <<isConnected, extensionAvailable, isIdentified,
                   isIdentifiedTimer, queueCheckTimer, requestQueue,
                   giveUpTimers, attempts, reconnectAttempts, called,
                   queueOutcomes>>
    /\ UNCHANGED <<identifyTicks, cookies>>
    /\ UNCHANGED <<heartBeatTimer, closeCalled>>
    /\ UNCHANGED brokerVars
    /\ UNCHANGED extensionVars

\* fetch: the isIdentifiedTimer setInterval callback, declared
\* (resolve, reject, counter = 0) => ...  The timer calls it with no argument:
\* counter is 0 at every run and resolve, reject are undefined.  Its else
\* branch calls sendClientIdentification(), whose catch (identOk false)
\* replaces the interval by the 1000 ms one that calls it again.
isIdentifiedInterval(identOk) ==
    /\ isIdentifiedTimer
    /\ LET counter == 0
       IN  IF counter >= IdentifyAttempts
           THEN \* reject is undefined: the call throws a TypeError
                UNCHANGED <<isIdentifiedTimer, queueOutcomes, requestQueue>>
           ELSE /\ isIdentifiedTimer' = TRUE
                /\ UNCHANGED <<queueOutcomes, requestQueue>>
    /\ identifyTicks' = Min(identifyTicks + 1, IdentifyAttempts)
    /\ UNCHANGED <<readyState, isConnected, extensionAvailable, isIdentified,
                   queueCheckTimer, giveUpTimers, attempts, reconnectAttempts,
                   reconnectTimer, called, cookies>>
    /\ UNCHANGED <<heartBeatTimer, closeCalled>>
    /\ UNCHANGED brokerVars
    /\ UNCHANGED extensionVars

\* ============================================ the executor-side channel
\* The WebSocket client of the extension (initWebSocket and its handlers).
\* initWebSocket() runs when the script is loaded.  The listeners of a socket
\* stay attached when `ws` is replaced, so the 'close' event of a replaced
\* socket still runs handleWebSocketClose.  handleWebSocketError and
\* updateConnectionStatus change only connectionStatus, which no handler
\* modelled here reads.

\* a WebSocket object as initWebSocket creates it
NewSocket == [state |-> "connecting", scheduled |-> 0]

\* ws.close(): a socket that is CONNECTING or OPEN starts closing
Closed(sock) ==
    IF sock.state \in {"connecting", "open"}
    THEN [sock EXCEPT !.state = "closing"] ELSE sock

\* scheduleReconnect(), run for the loss of socket i of `sockets`
scheduleReconnect(sockets, i) ==
    /\ extReconnectAttempts' = extReconnectAttempts + 1
    /\ extReconnectTimer' = (extReconnectAttempts + 1 <= MaxReconnectAttempts)
    /\ extTimersPending' =
            (extTimersPending - IF extReconnectTimer THEN 1 ELSE 0)
                + IF extReconnectAttempts + 1 <= MaxReconnectAttempts
                  THEN 1 ELSE 0
    /\ extSockets' = [sockets EXCEPT ![i].scheduled = @ + 1]

\* the setTimeout callback of scheduleReconnect: initWebSocket()
initWebSocket ==
    /\ extTimersPending > 0
    /\ Len(extSockets) < NSockets
    /\ extTimersPending' = extTimersPending - 1
    /\ extReconnectTimer' = FALSE
    /\ extSockets' = Append([extSockets EXCEPT ![Len(extSockets)] = Closed(@)],
                            NewSocket)
    /\ UNCHANGED <<extIsConnected, extReconnectAttempts, extMissedHeartbeats,
                   extLastPingReceived>>
    /\ UNCHANGED brokerVars
    /\ UNCHANGED clientVars

\* handleWebSocketOpen: the 'open' event of socket i
handleWebSocketOpen(i) ==
    /\ extSockets[i].state = "connecting"
    /\ extSockets' = [extSockets EXCEPT ![i].state = "open"]
    /\ extIsConnected' = TRUE
    /\ extReconnectAttempts' = 0
    /\ extMissedHeartbeats' = 0
    /\ extLastPingReceived' = TRUE
    /\ UNCHANGED <<extReconnectTimer, extTimersPending>>
    /\ UNCHANGED brokerVars
    /\ UNCHANGED clientVars

\* handleWebSocketMessage -> handleHeartbeat: a {type: 'ping'} frame on
\* socket i
handleHeartbeat(i) ==
    /\ extSockets[i].state = "open"
    /\ extLastPingReceived' = TRUE
    /\ extMissedHeartbeats' = 0
    /\ UNCHANGED <<extSockets, extIsConnected, extReconnectAttempts,
                   extReconnectTimer, extTimersPending>>
    /\ UNCHANGED brokerVars
    /\ UNCHANGED clientVars

\* handleWebSocketClose: the 'close' event of socket i (the connection
\* failed or was lost, or close() was called on it)
handleWebSocketClose(i) ==
    /\ extSockets[i].state # "closed"
    /\ extReconnectAttempts < NSchedules
    /\ extIsConnected' = FALSE
    /\ scheduleReconnect([extSockets EXCEPT ![i].state = "closed"], i)
    /\ UNCHANGED <<extMissedHeartbeats, extLastPingReceived>>
    /\ UNCHANGED brokerVars
    /\ UNCHANGED clientVars

\* the watchdog setInterval (every reconnectDelay / 2); overdue: more than
\* reconnectDelay has passed since lastPingReceived
watchdog(overdue) ==
    /\ extIsConnected /\ extLastPingReceived
    /\ overdue => extReconnectAttempts < NSchedules
    /\ IF overdue
       THEN /\ extMissedHeartbeats' = extMissedHeartbeats + 1
            /\ IF extMissedHeartbeats + 1 >= MaxMissedHeartbeats
               THEN scheduleReconnect(
                        [extSockets EXCEPT ![Len(extSockets)] = Closed(@)],
                        Len(extSockets))
               ELSE UNCHANGED <<extSockets, extReconnectAttempts,
                                extReconnectTimer, extTimersPending>>
       ELSE /\ extMissedHeartbeats' = 0
            /\ UNCHANGED <<extSockets, extReconnectAttempts,
                           extReconnectTimer, extTimersPending>>
    /\ UNCHANGED <<extIsConnected, extLastPingReceived>>
    /\ UNCHANGED brokerVars
    /\ UNCHANGED clientVars

\* the state after the script has loaded: initWebSocket() has run once
ExtensionInit ==
    /\ extSockets = <<NewSocket>>
    /\ extIsConnected = FALSE
    /\ extReconnectAttempts = 0
    /\ extReconnectTimer = FALSE
    /\ extTimersPending = 0
    /\ extMissedHeartbeats = 0
    /\ extLastPingReceived = FALSE

ExtensionNext ==
    \/ initWebSocket
    \/ \E i \in 1..Len(extSockets) : handleWebSocketOpen(i)
    \/ \E i \in 1..Len(extSockets) : handleHeartbeat(i)
    \/ \E i \in 1..Len(extSockets) : handleWebSocketClose(i)
    \/ \E overdue \in BOOLEAN : watchdog(overdue)

\* ------------------------------------------------------------ processes
\* the Xfetch constructor; calls: the calls of fetch() the run can make
ClientInitOf(calls) ==
    /\ readyState = "connecting"
    /\ isConnected = FALSE
    /\ extensionAvailable = FALSE
    /\ isIdentified = FALSE
    /\ isIdentifiedTimer = FALSE
    /\ queueCheckTimer = TRUE
    /\ heartBeatTimer = TRUE
    /\ closeCalled = "no"
    /\ requestQueue = <<>>
    /\ giveUpTimers = {}
    /\ attempts = <<>>
    /\ reconnectAttempts = 0
    /\ reconnectTimer = NoTimer
    /\ called = {}
    /\ identifyTicks = 0
    /\ cookies = [h \in Hosts |-> Undefined]
    /\ queueOutcomes = [call \in calls |-> <<>>]

ClientInit == ClientInitOf(Calls)

BrokerInit ==
    /\ wsState = [c \in Conn |-> "none"]
    /\ wsClientType = [c \in Conn |-> "unknown"]
    /\ clients = [role \in Roles |-> <<>>]
    /\ clientData = [role \in Roles |-> [c \in Conn |-> NewClientData]]
    /\ pendingRequests = [id \in ReqId |-> NoConn]
    /\ pendingRequestsQueue = [id \in ReqId |-> NoQueueItem]
    /\ stats = [requestsProcessed |-> 0, requestsSucceeded |-> 0,
                requestsFailed |-> 0]
    /\ crashed = FALSE
    /\ notices = [c \in Conn |-> "none"]
    /\ submitted = [id \in ReqId |-> NoConn]
    /\ delivered = [c \in Conn |-> {}]
    /\ frames = [id \in ReqId |-> <<>>]
    /\ retryTicks = [id \in ReqId |-> 0]
    /\ lastEvent = NoEvent

Init ==
    /\ BrokerInit
    /\ ClientInit
    /\ ExtensionInit

\* The peers of the repository keep one role for the life of a connection:
\* xfetch.js identifies as 'xfetch', the extension as 'extension'.  In Spec
\* connection 1 is a requester and the others are executors.
PeerRole(c) == IF c = 1 THEN "xfetch" ELSE "extension"

Next ==
    \/ \E c \in Conn : Connection(c)
    \/ \E c \in Conn : HandleClientIdentification(c, PeerRole(c))
    \/ \E c \in Conn : SocketClosing(c)
    \/ \E c \in Conn : OnClose(c)
    \/ \E c \in Conn, id \in ReqId, sendOk \in BOOLEAN :
            HandleXfetchRequest(c, id, sendOk)
    \/ \E id \in ReqId, sendOk \in BOOLEAN : RetryTick(id, sendOk)
    \/ \E c \in Conn, id \in ReqId, kind \in {"response", "error"},
          sendOk \in BOOLEAN : HandleExtensionResponse(c, id, kind, sendOk)
    \/ \E expired \in SUBSET ReqId : CleanupInterval(expired)
    \/ HeartbeatInterval
    \/ \E role \in Roles, c \in Conn : PongTimeout(role, c)
    \/ \E c \in Conn : HandlePongResponse(c)
    \/ \E c \in Conn, id \in ReqId, sendOk \in BOOLEAN,
          shape \in {"unparseable", "noShape", "request", "outcome"} :
            MalformedFrame(c, shape, id, sendOk)

Spec == Init /\ [][Next]_vars

\* A pending setTimeout callback is run by the event loop once its delay has
\* passed: the retry timer of a queued request fires.
FairSpec ==
    Spec /\ \A id \in ReqId :
                WF_vars(\E sendOk \in BOOLEAN : RetryTick(id, sendOk))

\* The cleanup setInterval runs every 2 minutes for as long as the process
\* lives: an expired entry is eventually deleted.
CleanupFairSpec ==
    FairSpec /\ WF_vars(\E expired \in SUBSET ReqId : CleanupInterval(expired))

\* Peers that may claim any role, any number of times
RegistryNext ==
    \/ \E c \in Conn : Connection(c)
    \/ \E c \in Conn, role \in Roles : HandleClientIdentification(c, role)
    \/ \E c \in Conn : SocketClosing(c)
    \/ \E c \in Conn : OnClose(c)
    \/ \E c \in Conn, id \in ReqId, sendOk \in BOOLEAN :
            HandleXfetchRequest(c, id, sendOk)
    \/ \E id \in ReqId, sendOk \in BOOLEAN : RetryTick(id, sendOk)
    \/ \E c \in Conn, id \in ReqId, kind \in {"response", "error"},
          sendOk \in BOOLEAN : HandleExtensionResponse(c, id, kind, sendOk)
    \/ \E expired \in SUBSET ReqId : CleanupInterval(expired)

RegistrySpec == Init /\ [][RegistryNext]_vars

\* Executor selection on every content of the executor partition: connection
\* 1 is an identified, open requester; the executors 2..NExec+1 have
\* identified in any order, any of them may have left the partition, missed
\* pongs (degraded, critical) or have a channel that is no longer open.
SelConn == 1..(NExec + 1)
Executors == SelConn \ {1}

\* the entries of a Map whose keys were inserted in the order of seq
Distinct(seq) == \A i, j \in 1..Len(seq) : i # j => seq[i] # seq[j]
Orders(S) ==
    {seq \in UNION {[1..n -> S] : n \in 0..Cardinality(S)} : Distinct(seq)}

\* the entry of an executor whose health is h
EntryWithHealth(h) ==
    [NewClientData EXCEPT !.healthStatus = h,
        !.missedHeartbeats = IF h = "healthy" THEN 0
                             ELSE IF h = "degraded" THEN 1 ELSE MaxMissed]

SelectionInit ==
    /\ \E partition \in Orders(Executors),
          health \in [Executors -> {"healthy", "degraded", "critical"}],
          closing \in SUBSET Executors :
            /\ clients = [role \in Roles |->
                    IF role = "extension" THEN partition ELSE <<1>>]
            /\ clientData = [role \in Roles |-> [c \in SelConn |->
                    IF role = "extension" /\ c \in Range(partition)
                    THEN EntryWithHealth(health[c]) ELSE NewClientData]]
            /\ wsState = [c \in SelConn |->
                    IF c \in closing THEN "closing" ELSE "open"]
            \* an executor outside the partition is the same in every state
            /\ \A c \in Executors \ Range(partition) :
                    health[c] = "healthy" /\ c \notin closing
            \* the requester identified before the executors did
            /\ notices = [c \in SelConn |->
                    IF c # 1 THEN "none"
                    ELSE IF partition = <<>> THEN "extensionUnavailable"
                    ELSE "extensionAvailable"]
    /\ wsClientType = [c \in SelConn |-> PeerRole(c)]
    /\ pendingRequests = [id \in ReqId |-> NoConn]
    /\ pendingRequestsQueue = [id \in ReqId |-> NoQueueItem]
    /\ stats = [requestsProcessed |-> 0, requestsSucceeded |-> 0,
                requestsFailed |-> 0]
    /\ crashed = FALSE
    /\ submitted = [id \in ReqId |-> NoConn]
    /\ delivered = [c \in SelConn |-> {}]
    /\ frames = [id \in ReqId |-> <<>>]
    /\ retryTicks = [id \in ReqId |-> 0]
    /\ lastEvent = NoEvent
    /\ ClientInit
    /\ ExtensionInit

SelectionNext ==
    \/ \E id \in ReqId, sendOk \in BOOLEAN : HandleXfetchRequest(1, id, sendOk)
    \/ \E id \in ReqId, sendOk \in BOOLEAN : RetryTick(id, sendOk)

SelectionSpec == SelectionInit /\ [][SelectionNext]_vars

\* The executor pool as the requesters are told of it: a fresh broker, one
\* requester (connection 1) and NExec executors that connect, identify and
\* leave in any order.
AvailabilityInit ==
    /\ wsState = [c \in SelConn |-> "none"]
    /\ wsClientType = [c \in SelConn |-> "unknown"]
    /\ clients = [role \in Roles |-> <<>>]
    /\ clientData = [role \in Roles |-> [c \in SelConn |-> NewClientData]]
    /\ pendingRequests = [id \in ReqId |-> NoConn]
    /\ pendingRequestsQueue = [id \in ReqId |-> NoQueueItem]
    /\ stats = [requestsProcessed |-> 0, requestsSucceeded |-> 0,
                requestsFailed |-> 0]
    /\ crashed = FALSE
    /\ notices = [c \in SelConn |-> "none"]
    /\ submitted = [id \in ReqId |-> NoConn]
    /\ delivered = [c \in SelConn |-> {}]
    /\ frames = [id \in ReqId |-> <<>>]
    /\ retryTicks = [id \in ReqId |-> 0]
    /\ lastEvent = NoEvent
    /\ ClientInit
    /\ ExtensionInit

AvailabilityNext ==
    \/ \E c \in SelConn : Connection(c)
    \/ \E c \in SelConn : HandleClientIdentification(c, PeerRole(c))
    \/ \E c \in SelConn : SocketClosing(c)
    \/ \E c \in SelConn : OnClose(c)

AvailabilitySpec == AvailabilityInit /\ [][AvailabilityNext]_vars

\* The heartbeat over peers that answer every ping within the pong timeout.
\* A peer sends one pong per ping, in order; the pong of the ping sent at one
\* tick arrives before the timeout set at that tick is due, so before the
\* second tick after it: when a tick comes, and when a timeout fires, at most
\* the ping of the last tick is unanswered.
Punctual ==
    \A role \in Roles : \A c \in Range(clients[role]) :
        clientData[role][c].unanswered <= 1

PunctualHeartbeatInterval == Punctual /\ HeartbeatInterval

PunctualPongTimeout(role, c) == Punctual /\ PongTimeout(role, c)

\* the pong of the oldest unanswered ping arrives
PunctualPong(c) ==
    /\ clientData[wsClientType[c]][c].unanswered > 0
    /\ HandlePongResponse(c)

\* both connections are open and identified, no ping has been sent yet; a
\* peer answers its pings until its channel closes
HeartbeatInit ==
    /\ wsState = [c \in Conn |-> "open"]
    /\ wsClientType = [c \in Conn |-> PeerRole(c)]
    /\ clients = [role \in Roles |->
            SelectSeq([c \in Conn |-> c], LAMBDA c : PeerRole(c) = role)]
    /\ clientData = [role \in Roles |-> [c \in Conn |-> NewClientData]]
    /\ pendingRequests = [id \in ReqId |-> NoConn]
    /\ pendingRequestsQueue = [id \in ReqId |-> NoQueueItem]
    /\ stats = [requestsProcessed |-> 0, requestsSucceeded |-> 0,
                requestsFailed |-> 0]
    /\ crashed = FALSE
    /\ notices = [c \in Conn |->
            IF PeerRole(c) = "xfetch" THEN "extensionAvailable" ELSE "none"]
    /\ submitted = [id \in ReqId |-> NoConn]
    /\ delivered = [c \in Conn |-> {}]
    /\ frames = [id \in ReqId |-> <<>>]
    /\ retryTicks = [id \in ReqId |-> 0]
    /\ lastEvent = NoEvent
    /\ ClientInit
    /\ ExtensionInit

HeartbeatNext ==
    \/ PunctualHeartbeatInterval
    \/ \E role \in Roles, c \in Conn : PunctualPongTimeout(role, c)
    \/ \E c \in Conn : PunctualPong(c)
    \/ \E c \in Conn : SocketClosing(c)
    \/ \E c \in Conn : OnClose(c)

HeartbeatSpec == HeartbeatInit /\ [][HeartbeatNext]_vars

\* The executor-side channel client with its environment: socket events,
\* pings, the watchdog and the reconnect timer
ExtensionSpec == Init /\ [][ExtensionNext]_vars

\* the urls and cookies of the responses the client is sent
ResponseUrls == {url \in Urls : url.pathname = "/"}
ResponseCookies ==
    {NoCookies} \cup {SomeCookies(list) : list \in
                        {l \in CookieLists :
                            \A i \in 1..Len(l) : l[i].value = 1}}

\* The requester client with its environment: calls of fetch(), frames from
\* the broker, timers, the transport
ClientNext ==
    \/ \E call \in Calls, sendOk \in BOOLEAN : fetch(call, sendOk)
    \/ \E call \in Calls : giveUpTimer(call)
    \/ \E sendOk \in [Calls -> BOOLEAN] : queueCheckInterval(sendOk)
    \/ \E identOk \in BOOLEAN, sendOk \in [Calls -> BOOLEAN] :
            onopen(identOk, sendOk)
    \/ onmessageIdentified
    \/ \E sendOk \in [Calls -> BOOLEAN] : onmessageExtensionAvailable(sendOk)
    \/ onmessageExtensionUnavailable
    \/ \E id \in Ids, kind \in {"response", "error"}, url \in ResponseUrls,
          resCookies \in ResponseCookies :
            onmessageResponse(id, kind, url, resCookies)
    \/ \E id \in Ids, sendOk \in BOOLEAN : attemptTimeout(id, sendOk)
    \/ \E id \in Ids, sendOk \in BOOLEAN : sendRetryTimer(id, sendOk)
    \/ transportClosing
    \/ close
    \/ onclose
    \/ reconnectTimeout
    \/ \E identOk \in BOOLEAN : isIdentifiedInterval(identOk)

ClientSpec == Init /\ [][ClientNext]_vars

\* The cookie store on its own: any sequence of setCookies calls
CookieNext == \E url \in Urls, list \in CookieLists : setCookies(url, list)

CookieSpec == Init /\ [][CookieNext]_vars

\* The outbound queue and its drain, with several calls: every handler of
\* the client that runs before a per-attempt timeout (config.timeout after the
\* send) or a frame {id, ...} of an attempt
QueueCalls == 1..NQueueCalls

QueueInit == BrokerInit /\ ClientInitOf(QueueCalls) /\ ExtensionInit

QueueNext ==
    \/ \E call \in QueueCalls, sendOk \in BOOLEAN : fetch(call, sendOk)
    \/ \E call \in QueueCalls : giveUpTimer(call)
    \/ \E sendOk \in [QueueCalls -> BOOLEAN] : queueCheckInterval(sendOk)
    \/ \E identOk \in BOOLEAN, sendOk \in [QueueCalls -> BOOLEAN] :
            onopen(identOk, sendOk)
    \/ onmessageIdentified
    \/ \E sendOk \in [QueueCalls -> BOOLEAN] :
            onmessageExtensionAvailable(sendOk)
    \/ onmessageExtensionUnavailable
    \/ transportClosing
    \/ close
    \/ onclose
    \/ reconnectTimeout
    \/ \E identOk \in BOOLEAN : isIdentifiedInterval(identOk)

QueueSpec == QueueInit /\ [][QueueNext]_vars

\* every id _sendRequest can allocate: each call makes at most MaxRetries + 1
\* attempts
AllIds == 1..(NCalls * (MaxRetries + 1))

\* A pending setTimeout callback is run by the event loop once its delay has
\* passed: the per-attempt timeout of every id fires unless it is cleared.
ClientFairSpec ==
    ClientSpec /\ \A id \in AllIds :
                    WF_vars(\E sendOk \in BOOLEAN : attemptTimeout(id, sendOk))

\* ======================================================== broker claims
InFlight(id) == pendingRequests[id] # NoConn
Queued(id) == pendingRequestsQueue[id].client # NoConn
Dispatched(id) == \E c \in Conn : id \in delivered[c]
Entry(role, c) == clientData[role][c]

\* C1: for every submitted request id the broker sends at most one terminal
\* frame {id, response|error}, and only to the connection that submitted it,
\* whatever the order of registrations, responses (duplicates included),
\* retry ticks, send failures, closes and heartbeats.
C1_AtMostOneTerminalFrame ==
    \A id \in ReqId :
        /\ Len(frames[id]) <= 1
        /\ \A i \in 1..Len(frames[id]) : frames[id][i].to = submitted[id]

\* a duplicate response arrives for a request that went through the retry
\* queue and was already answered
C1_Witness ==
    \E id \in ReqId :
        /\ lastEvent.op = "lateResponse" /\ lastEvent.id = id
        /\ retryTicks[id] >= 1
        /\ Len(frames[id]) = 1 /\ frames[id][1].kind = "response"

\* C2: with no executor registered the router re-attempts selection 3 times,
\* one retry timer of 2000 ms at a time; the 'No extension clients available
\* after maximum retries' frame is sent only by the check that follows the
\* third retry, it is the only frame for the id, and the id is then in
\* neither table; that check does send it when the partition is still empty
\* and the requester is open.  A queued request, for as long as the broker
\* process runs, the partition stays empty and the requester stays open, is
\* eventually answered with that frame.
C2_FailsAfterThreeRetries ==
    /\ [](\A id \in ReqId :
            /\ retryTicks[id] <= MaxQueueRetries
            /\ Queued(id) =>
                /\ pendingRequestsQueue[id].count = retryTicks[id]
                /\ pendingRequestsQueue[id].count < MaxQueueRetries
                /\ pendingRequestsQueue[id].delay = RetryDelayMs
            /\ \A i \in 1..Len(frames[id]) :
                frames[id][i].kind = "errNoExtension" =>
                    /\ retryTicks[id] = MaxQueueRetries
                    /\ Len(frames[id]) = 1
                    /\ ~InFlight(id) /\ ~Queued(id))
    /\ [][\A id \in ReqId :
            (/\ lastEvent'.op = "retry" /\ lastEvent'.id = id
             /\ retryTicks'[id] > retryTicks[id]
             /\ Len(clients["extension"]) = 0
             /\ wsState[pendingRequestsQueue[id].client] = "open")
            => IF retryTicks'[id] < MaxQueueRetries
               THEN Queued(id)' /\ frames'[id] = <<>>
               ELSE /\ frames'[id] = <<Frame(submitted[id], "errNoExtension")>>
                    /\ ~InFlight(id)' /\ ~Queued(id)']_vars
    /\ \A id \in ReqId :
            Queued(id) ~>
                (\/ \E c \in Conn : frames[id] = <<Frame(c, "errNoExtension")>>
                 \/ Len(clients["extension"]) > 0
                 \/ \E c \in Conn : submitted[id] = c /\ wsState[c] # "open"
                 \/ crashed)

\* the third retry found no executor and the requester was told so
C2_Witness ==
    \E id \in ReqId :
        /\ lastEvent.op = "retry" /\ lastEvent.id = id
        /\ retryTicks[id] = 3
        /\ frames[id] = <<Frame(submitted[id], "errNoExtension")>>

\* C3: at a retry tick of a queued request that finds an open executor
\* registered and whose send succeeds, the request is sent to an open
\* registered executor, the queue entry is removed, the in-flight entry is
\* left as it was (present while the requester is open), no frame is sent to
\* the requester; and once a request has been sent to an executor no retry
\* timer runs for its id again.
C3_DispatchedAtNextRetry ==
    /\ [][\A id \in ReqId :
            (/\ Queued(id)
             /\ \E c \in Range(clients["extension"]) : wsState[c] = "open"
             /\ RetryTick(id, TRUE))
            => /\ \E c \in Range(clients["extension"]) :
                    /\ wsState[c] = "open"
                    /\ delivered'[c] = delivered[c] \cup {id}
               /\ ~Queued(id)'
               /\ pendingRequests'[id] = pendingRequests[id]
               /\ wsState[submitted[id]] = "open" => InFlight(id)'
               /\ frames' = frames]_vars
    /\ [][\A id \in ReqId :
            Dispatched(id) => /\ retryTicks'[id] = retryTicks[id]
                              /\ ~Queued(id)']_vars

\* a queued request was dispatched by a retry tick and is in flight
C3_Witness ==
    \E id \in ReqId :
        /\ lastEvent.op = "retry" /\ lastEvent.id = id
        /\ Dispatched(id) /\ InFlight(id) /\ ~Queued(id)
        /\ frames[id] = <<>>

\* C6: a registered connection whose health is 'critical' (3 probes in a row
\* went unanswered within the pong timeout) is terminated and removed from
\* its role partition by the next health check.
C6_CriticalIsTerminated ==
    [][lastEvent'.op = "heartbeat" =>
        \A role \in Roles : \A c \in Range(clients[role]) :
            Entry(role, c).healthStatus = "critical" =>
                /\ c \notin Range(clients'[role])
                /\ wsState'[c] # "open"]_vars

\* C7: a pong from a registered connection clears the pending pong timeout,
\* sets awaitingPong to false and missedHeartbeats to 0, and makes the health
\* 'healthy' unless it was 'critical'; when the timeout it answers has fired
\* already no timer is touched; missedHeartbeats is never negative.
C7_PongResetsHeartbeat ==
    /\ [](\A role \in Roles : \A c \in Conn :
            Entry(role, c).missedHeartbeats >= 0)
    /\ [][\A c \in Conn :
            (/\ lastEvent'.op = "pong" /\ lastEvent'.conn = c
             /\ wsClientType[c] # "unknown" /\ Has(wsClientType[c], c))
            => LET d == Entry(wsClientType[c], c)
                   e == Entry(wsClientType[c], c)'
               IN  /\ e.pongTimeoutId = "null"
                   /\ d.pongTimeoutId = "new" => ~e.timerNew
                   /\ d.pongTimeoutId = "old" => ~e.timerOld
                   /\ d.pongTimeoutId \in {"fired", "null"} =>
                        e.timerNew = d.timerNew /\ e.timerOld = d.timerOld
                   /\ ~e.awaitingPong
                   /\ e.missedHeartbeats = 0
                   /\ e.healthStatus = IF d.healthStatus = "critical"
                                       THEN "critical" ELSE "healthy"]_vars

\* a pong arrived after a pong timeout had fired and degraded the entry
C7_Witness ==
    \E c \in Conn :
        /\ lastEvent.op = "pong" /\ lastEvent.conn = c
        /\ lastEvent.was = "degraded"
        /\ wsClientType[c] # "unknown" /\ Has(wsClientType[c], c)
        /\ Entry(wsClientType[c], c).healthStatus = "healthy"
        /\ Entry(wsClientType[c], c).missedHeartbeats = 0

\* C8: when a connection is unregistered (its 'close' event, or a forced
\* heartbeat termination) no in-flight request remains whose originating
\* requester or whose target executor is that connection.
C8_UnregisterPurgesInFlight ==
    [][\A role \in Roles : \A c \in Range(clients[role]) :
            (lastEvent'.op \in {"close", "heartbeat"}
                /\ c \notin Range(clients'[role]))
            => \A id \in ReqId :
                    InFlight(id)' =>
                        /\ pendingRequests'[id] # c
                        /\ id \notin delivered[c]]_vars

\* C9 as stated: no request id is in the in-flight table and in the queued
\* table at the same time.
C9_InFlightXorQueued ==
    \A id \in ReqId : ~(InFlight(id) /\ Queued(id))

\* C9 amended: the in-flight entry is recorded at submission and kept while
\* the request is queued: a queued id whose requester connection is open is
\* in the in-flight table as well, under the same connection; an id that has
\* been sent to an executor or answered is not queued.
C9_QueuedStaysInFlight ==
    \A id \in ReqId :
        /\ (Queued(id) /\ wsState[pendingRequestsQueue[id].client] = "open")
                => pendingRequests[id] = pendingRequestsQueue[id].client
        /\ (Dispatched(id) \/ frames[id] # <<>>) => ~Queued(id)

\* a request waits in the queue and is in flight
C9_Witness ==
    \E id \in ReqId :
        /\ Queued(id) /\ InFlight(id)
        /\ pendingRequestsQueue[id].count > 0

\* C10: a connection is in at most one role partition and its role, once
\* set, never changes.
C10_OneRoleForever ==
    /\ [](\A c \in Conn : ~(Has("extension", c) /\ Has("xfetch", c)))
    /\ [][\A c \in Conn : wsClientType[c] # "unknown" =>
                wsClientType'[c] = wsClientType[c]]_vars

\* the positions of the executor partition whose channel is open
OpenAt ==
    {i \in 1..Len(clients["extension"]) :
        wsState[clients["extension"][i]] = "open"}

HealthAt(i) == clientData["extension"][clients["extension"][i]].healthStatus

\* C11: the executor a submitted request is sent to is the first one, in the
\* iteration order of the partition, among the open executors of the best
\* health present (healthy before degraded before critical); so when an open
\* healthy executor exists it is the first open healthy one.  When the
\* partition has no open executor nothing is sent to any executor and the
\* requester is told the send failed; when the partition is empty nothing is
\* sent either.  A send that throws delivers to no executor.
C11_FirstBestOpenExecutor ==
    [][\A id \in ReqId, sendOk \in BOOLEAN :
        HandleXfetchRequest(1, id, sendOk) =>
            LET part == clients["extension"]
                rank(i) == IF HealthAt(i) = "healthy" THEN 2
                           ELSE IF HealthAt(i) = "degraded" THEN 1 ELSE 0
                first == CHOOSE i \in OpenAt :
                            /\ \A j \in OpenAt : rank(j) <= rank(i)
                            /\ \A j \in OpenAt : j < i => rank(j) < rank(i)
            IN  IF OpenAt = {}
                THEN /\ BestExtension = NoConn
                     /\ delivered' = delivered
                     /\ part # <<>> =>
                            frames'[id] = <<Frame(1, "errSendFailed")>>
                ELSE /\ BestExtension = part[first]
                     /\ delivered' = IF sendOk
                            THEN [delivered EXCEPT ![part[first]] = @ \cup {id}]
                            ELSE delivered]_vars

\* the request went to the second executor of the partition: the first one
\* is open but degraded, the second and the third are open and healthy
C11_Witness ==
    /\ lastEvent.op = "request"
    /\ Len(clients["extension"]) = 3
    /\ OpenAt = {1, 2, 3}
    /\ HealthAt(1) = "degraded" /\ HealthAt(2) = "healthy"
    /\ HealthAt(3) = "healthy"
    /\ delivered[clients["extension"][2]] = {lastEvent.id}

\* C12: when an executor is selected and the send to it throws, whether at
\* submission or at a retry tick, the router sends the requester, if its
\* channel is open, one 'Failed to send request to extension clients' frame
\* (none if it is not open), the id is then in neither table, nothing was
\* delivered to an executor, and no retry timer is left for the id; an id
\* answered with that frame has no other frame and is never queued again.
C12_SendFailureFailsRequest ==
    /\ [][\A id \in ReqId, c \in Conn :
            (/\ BestExtension # NoConn
             /\ \/ HandleXfetchRequest(c, id, FALSE)
                \/ pendingRequestsQueue[id].client = c /\ RetryTick(id, FALSE))
            => /\ frames'[id] = IF wsState[c] = "open"
                                THEN <<Frame(c, "errSendFailed")>> ELSE <<>>
               /\ ~InFlight(id)' /\ ~Queued(id)'
               /\ delivered' = delivered]_vars
    /\ [](\A id \in ReqId :
            (\E i \in 1..Len(frames[id]) : frames[id][i].kind = "errSendFailed")
                => /\ Len(frames[id]) = 1
                   /\ ~InFlight(id) /\ ~Queued(id))

\* a retry tick selected an open executor, the send threw, and the requester
\* was told so
C12_Witness ==
    \E id \in ReqId :
        /\ lastEvent.op = "retry" /\ lastEvent.id = id
        /\ \E c \in Range(clients["extension"]) : wsState[c] = "open"
        /\ frames[id] = <<Frame(submitted[id], "errSendFailed")>>
        /\ delivered = [c \in Conn |-> {}]

C14_LateResponseDropped ==
    [][\A c \in Conn, id \in ReqId, kind \in {"response", "error"},
         sendOk \in BOOLEAN :
        (~InFlight(id) /\ HandleExtensionResponse(c, id, kind, sendOk))
        => UNCHANGED <<frames, pendingRequests, pendingRequestsQueue,
                       stats>>]_vars

\* a response arrived after the close of the requester had purged the
\* in-flight entry of its id
C14_Witness ==
    \E id \in ReqId :
        /\ lastEvent.op = "lateResponse" /\ lastEvent.id = id
        /\ wsState[submitted[id]] = "closed"
        /\ frames[id] = <<>>
        /\ stats.requestsProcessed = 0

\* the id is in neither table
Gone(id) == ~InFlight(id) /\ ~Queued(id)

\* C24: every request that is in the in-flight or the queued table is
\* eventually in neither (for as long as the broker process runs); and
\* whenever a request leaves the tables while its requester's channel is
\* open, a frame for its id (the executor's response, or a failure) has been
\* sent to the requester.
C24_RemovedAndFailedOutward ==
    /\ \A id \in ReqId : (InFlight(id) \/ Queued(id)) ~> (Gone(id) \/ crashed)
    /\ [][\A id \in ReqId :
            (/\ InFlight(id) \/ Queued(id)
             /\ Gone(id)'
             /\ \E c \in Conn : submitted[id] = c /\ wsState'[c] = "open")
            => frames'[id] # <<>>]_vars

\* C25: a frame that cannot be parsed or that is no message of its sender's
\* role (among them a fetch submission from a connection that is not a
\* requester and an outcome from a connection that is not an executor) sends
\* no frame to any peer and leaves the registry, the in-flight table and the
\* queued table as they were.
C25_MalformedFrameIgnored ==
    [][lastEvent'.op = "malformed" =>
        /\ frames' = frames /\ delivered' = delivered
        /\ wsClientType' = wsClientType
        /\ clients' = clients /\ clientData' = clientData
        /\ pendingRequests' = pendingRequests
        /\ pendingRequestsQueue' = pendingRequestsQueue]_vars

\* C26: under pongs, pong timeouts and health checks a registered connection
\* whose health is 'critical' never has the health 'degraded' or 'healthy'
\* again: a step of these handlers either leaves it registered and critical
\* or removes its entry.
C26_CriticalIsAbsorbing ==
    [][lastEvent'.op \in {"pong", "pongTimeout", "heartbeat"} =>
        \A role \in Roles : \A c \in Range(clients[role]) :
            (/\ Entry(role, c).healthStatus = "critical"
             /\ c \in Range(clients'[role]))
            => clientData'[role][c].healthStatus = "critical"]_vars

\* C27 (as stated): a request is never sent to an executor whose health is
\* 'critical', not even when every open executor is critical.
C27_NeverSentToCritical ==
    [][\A c \in DOMAIN delivered :
        delivered'[c] # delivered[c]
            => clientData["extension"][c].healthStatus # "critical"]_vars

\* C27 (amended): a request is sent to an executor whose health is
\* 'critical' only when every open executor of the partition is critical,
\* and then to the first open one in the iteration order.
C27_CriticalOnlyAsLastResort ==
    [][\A c \in DOMAIN delivered :
        (/\ delivered'[c] # delivered[c]
         /\ clientData["extension"][c].healthStatus = "critical")
        => /\ \A i \in OpenAt : HealthAt(i) = "critical"
           /\ \E i \in OpenAt : /\ clients["extension"][i] = c
                                /\ \A j \in OpenAt : i <= j]_vars

\* a request was sent to a critical executor, the second open one being
\* critical too and a healthy one having a channel that is not open
C27_Witness ==
    /\ lastEvent.op = "request"
    /\ Cardinality(OpenAt) >= 2
    /\ \E i \in OpenAt :
        /\ HealthAt(i) = "critical"
        /\ delivered[clients["extension"][i]] # {}
    /\ \E i \in 1..Len(clients["extension"]) :
        i \notin OpenAt /\ HealthAt(i) = "healthy"

\* C28: when a request is submitted and no open executor can be selected,
\* whether the executor partition is empty or holds only executors whose
\* channel is not open, the request is put in the queued table with retry
\* counter 0 and a retry timer of 2000 ms, and no frame is sent to the
\* requester.
C28_NoOpenExecutorIsQueued ==
    [][\A id \in ReqId, c \in Conn, sendOk \in BOOLEAN :
        (/\ \A e \in Range(clients["extension"]) : wsState[e] # "open"
         /\ HandleXfetchRequest(c, id, sendOk))
        => /\ pendingRequestsQueue'[id] =
                [client |-> c, count |-> 0, delay |-> 2000]
           /\ frames'[id] = frames[id]]_vars

\* the requesters that are registered and whose channel is open
OpenRequesters ==
    {c \in Range(clients["xfetch"]) :
        wsState[c] = "open" /\ wsClientType[c] = "xfetch"}

\* C31: a requester that identifies is sent 'extensionAvailable' if and only
\* if at least one executor is registered; when the executor partition goes
\* from empty to non-empty every open requester is sent 'extensionAvailable',
\* when it becomes empty every open requester is sent
\* 'extensionUnavailable'; so the last availability frame sent to an open
\* registered requester says 'extensionAvailable' exactly when the executor
\* partition is non-empty.
C31_AvailabilityTracksPartition ==
    /\ [][\A c \in DOMAIN wsState :
            HandleClientIdentification(c, "xfetch")
            => (notices'[c] = "extensionAvailable"
                    <=> Len(clients'["extension"]) >= 1)]_vars
    /\ [][(Len(clients["extension"]) = 0) # (Len(clients'["extension"]) = 0)
            => \A c \in OpenRequesters' :
                    notices'[c] = IF Len(clients'["extension"]) = 0
                                  THEN "extensionUnavailable"
                                  ELSE "extensionAvailable"]_vars
    /\ [](\A c \in OpenRequesters :
            notices[c] = "extensionAvailable"
                <=> Len(clients["extension"]) > 0)

\* C33: once the close handler of a requester connection has run, no entry
\* of the queued table refers to that connection, no retry timer callback
\* runs for a request it submitted, and no such request is sent to an
\* executor.
C33_QueuePurgedOnRequesterClose ==
    /\ [](\A id \in ReqId : \A c \in DOMAIN wsState :
            pendingRequestsQueue[id].client = c => wsState[c] # "closed")
    /\ [][\A id \in ReqId : \A c \in DOMAIN wsState :
            (submitted[id] = c /\ wsState[c] = "closed")
            => /\ retryTicks'[id] = retryTicks[id]
               /\ \A e \in DOMAIN delivered :
                    id \in delivered'[e] => id \in delivered[e]]_vars

\* C34: in every reachable state the global counters satisfy
\* requestsProcessed = requestsSucceeded + requestsFailed.
C34_ProcessedIsSucceededPlusFailed ==
    stats.requestsProcessed = stats.requestsSucceeded + stats.requestsFailed

\* C35: the close handler of a connection that never identified (ws.clientType
\* still 'unknown') completes: no exception leaves it, and both role
\* partitions are as they were.
C35_UnknownCloseCompletes ==
    [][\A c \in DOMAIN wsState :
        (wsClientType[c] = "unknown" /\ OnClose(c))
        => /\ ~crashed'
           /\ clients' = clients]_vars

\* C36: a registered connection that answers every ping within the pong
\* timeout, the timeouts of successive pings overlapping, never has
\* missedHeartbeats incremented and never leaves 'healthy'; it leaves its
\* partition only by its own close, never by the health check.
C36_NoFalseMiss ==
    /\ [](\A c \in Conn :
            /\ clientData[PeerRole(c)][c].missedHeartbeats = 0
            /\ clientData[PeerRole(c)][c].healthStatus = "healthy")
    /\ [][\A c \in Conn :
            clientData'[PeerRole(c)][c].missedHeartbeats
                <= clientData[PeerRole(c)][c].missedHeartbeats]_vars
    /\ [][\A c \in Conn :
            (Has(PeerRole(c), c) /\ ~Has(PeerRole(c), c)')
            => lastEvent'.op = "close" /\ lastEvent'.conn = c]_vars

\* the pong of a ping arrived after the next ping had been sent and cleared
\* the newer timeout; the older timeout then fired and counted no miss
C36_Witness ==
    \E c \in Conn :
        /\ lastEvent.op = "pongTimeout" /\ lastEvent.conn = c
        /\ clientData[PeerRole(c)][c].pongTimeoutId = "null"
        /\ ~clientData[PeerRole(c)][c].timerNew
        /\ clientData[PeerRole(c)][c].unanswered = 1
        /\ clientData[PeerRole(c)][c].missedHeartbeats = 0
        /\ clientData[PeerRole(c)][c].healthStatus = "healthy"

\* ======================================================== client claims
AttemptsOf(call) == {id \in Ids : attempts[id].call = call}
PendingOf(call) == {id \in AttemptsOf(call) : attempts[id].pending}

\* no send of the call threw and no frame has arrived for any of its ids
Clean(call) ==
    \A id \in AttemptsOf(call) : ~attempts[id].threw /\ ~attempts[id].answered

FailedAfterRetries(call) ==
    \E id \in AttemptsOf(call) : attempts[id].outcomes = <<"maxRetries">>

\* C4: for every correlation id allocated by _sendRequest, resolve / reject
\* is called at most once for that id, over any interleaving of response
\* frames, per-attempt timeouts, send failures and the close of the transport.
C4_OneOutcomePerId ==
    \A id \in Ids : Len(attempts[id].outcomes) <= 1

\* C5: every attempt has retryCount <= maxRetries and a call makes at most
\* one attempt per retry level (maxRetries + 1 in all); the 'Request failed
\* after maxRetries retries' rejection is made only by the timeout of the
\* attempt with retryCount = maxRetries; a call whose sends all succeeded and
\* whose ids received no frame has at most one attempt pending.  With the
\* transport open and the send succeeding, the timeout of a pending attempt
\* removes its id and either (retryCount < maxRetries) sends one new attempt
\* of the same call under a fresh id with retryCount + 1, delivering no
\* outcome, or (retryCount = maxRetries) rejects with that failure and sends
\* nothing.  Such a call, while its transport stays open, is eventually
\* rejected with that failure.
C5_RetriesThenFails ==
    /\ [](\A id \in Ids :
            /\ attempts[id].retryCount <= MaxRetries
            /\ \A i \in 1..Len(attempts[id].outcomes) :
                    attempts[id].outcomes[i] = "maxRetries" =>
                        attempts[id].retryCount = MaxRetries
            /\ \A other \in Ids :
                    (/\ attempts[other].call = attempts[id].call
                     /\ attempts[other].retryCount = attempts[id].retryCount)
                    => other = id)
    /\ [](\A call \in Calls : Clean(call) => Cardinality(PendingOf(call)) <= 1)
    /\ [][\A id \in Ids :
            (/\ attempts[id].pending /\ attempts[id].outcomes = <<>>
             /\ readyState = "open"
             /\ attemptTimeout(id, TRUE))
            => LET a == attempts[id]
                   n == Len(attempts)
               IN  /\ ~attempts'[id].pending
                   /\ IF a.retryCount < MaxRetries
                      THEN /\ Len(attempts') = n + 1
                           /\ attempts'[n + 1].call = a.call
                           /\ attempts'[n + 1].retryCount = a.retryCount + 1
                           /\ attempts'[n + 1].pending
                           /\ attempts'[n + 1].timer
                           /\ attempts'[n + 1].sent
                           /\ \A old \in Ids :
                                attempts'[old].outcomes = attempts[old].outcomes
                      ELSE /\ Len(attempts') = n
                           /\ attempts'[id].outcomes = <<"maxRetries">>]_vars
    /\ \A call \in Calls :
            (AttemptsOf(call) # {} /\ Clean(call) /\ readyState = "open")
                ~> (FailedAfterRetries(call) \/ ~Clean(call)
                        \/ readyState # "open")

\* a call whose attempts were all sent and never answered has made
\* maxRetries + 1 attempts and has been rejected by the last timeout
C5_Witness ==
    \E call \in Calls :
        /\ Clean(call) /\ readyState = "open"
        /\ Cardinality(AttemptsOf(call)) = MaxRetries + 1
        /\ PendingOf(call) = {}
        /\ FailedAfterRetries(call)

\* the transport is open (the socket's readyState is OPEN)
TransportOpen == readyState = "open"

\* C15: a call of fetch is dispatched at once (one new attempt of the call,
\* retryCount 0, the queue and the give-up timers untouched) if and only if
\* the transport is open, the extension is known available and the client is
\* identified; otherwise no attempt is made, the call is appended at the tail
\* of the queue, its give-up timer is armed, and when the client is not
\* connected and the socket is not CONNECTING reconnect() runs (its
\* ws.close() is applied to the socket).
C15_DispatchOrQueue ==
    [][called' # called =>
        \E call \in QueueCalls \ called :
            /\ called' = called \cup {call}
            /\ IF TransportOpen /\ extensionAvailable /\ isIdentified
               THEN /\ Len(attempts') = Len(attempts) + 1
                    /\ attempts'[Len(attempts')].call = call
                    /\ attempts'[Len(attempts')].retryCount = 0
                    /\ \A id \in Ids : attempts'[id] = attempts[id]
                    /\ requestQueue' = requestQueue
                    /\ giveUpTimers' = giveUpTimers
                    /\ readyState' = readyState
               ELSE /\ attempts' = attempts
                    /\ requestQueue' = Append(requestQueue, call)
                    /\ giveUpTimers' = giveUpTimers \cup {call}
                    /\ call \notin giveUpTimers
                    /\ readyState' =
                        IF ~isConnected /\ readyState = "open"
                        THEN "closing" ELSE readyState]_vars

\* one call was dispatched at once, and later two calls were queued in the
\* order of their calls, not of their numbers, each with its timer
C15_Witness ==
    /\ requestQueue = <<2, 1>>
    /\ giveUpTimers = {1, 2}
    /\ Len(attempts) = 1 /\ attempts[1].call = 3 /\ attempts[1].retryCount = 0

\* C16: every call in the outbound queue has a pending give-up timer (so a
\* queued call that is never dispatched is removed and rejected when the
\* timer fires, and none stays in the queue forever).
C16_QueuedHasGiveUpTimer ==
    \A i \in 1..Len(requestQueue) : requestQueue[i] \in giveUpTimers

\* the handlers that run processQueue(): the queue-check interval, the
\* 'extensionAvailable' frame and ws.onopen
RunsDrain(sendOk) ==
    \/ queueCheckInterval(sendOk)
    \/ onmessageExtensionAvailable(sendOk)
    \/ \E identOk \in BOOLEAN : onopen(identOk, sendOk)

\* C17: when processQueue runs with the transport open and the extension
\* available (as the calling handler left them), the whole queue is emptied
\* in that step, every give-up timer is cancelled, and one attempt is made
\* per drained entry, in the order of the queue, with the entry's stored
\* retry count (0) and no other attempt; when the condition does not hold
\* (or the queue is empty) processQueue leaves the queue, the attempts and
\* the timers as they were when it was entered (ws.onopen has cancelled the
\* timers itself before it calls processQueue).
C17_DrainIsWholeAndFifo ==
    [][\A sendOk \in [QueueCalls -> BOOLEAN] :
        RunsDrain(sendOk) =>
            LET n == Len(attempts)
                k == Len(requestQueue)
            IN  IF readyState' = "open" /\ extensionAvailable' /\ k > 0
                THEN /\ requestQueue' = <<>>
                     /\ giveUpTimers' = {}
                     /\ Len(attempts') = n + k
                     /\ \A id \in 1..n : attempts'[id] = attempts[id]
                     /\ \A i \in 1..k :
                            /\ attempts'[n + i].call = requestQueue[i]
                            /\ attempts'[n + i].retryCount = 0
                ELSE /\ requestQueue' = requestQueue
                     /\ attempts' = attempts
                     /\ giveUpTimers' = IF readyState = "connecting"
                                        THEN {} ELSE giveUpTimers]_vars

\* three calls were queued in the order 2, 3, 1 and, the client never
\* identified (so fetch dispatched none of them), were drained in that order
C17_Witness ==
    /\ ~isIdentified
    /\ requestQueue = <<>> /\ giveUpTimers = {}
    /\ Len(attempts) = 3
    /\ attempts[1].call = 2 /\ attempts[2].call = 3 /\ attempts[3].call = 1
    /\ \A id \in Ids : attempts[id].retryCount = 0

\* the call of attempt id has been rejected by ws.onclose
ClosedOut(id) ==
    \E i \in 1..Len(attempts[id].outcomes) : attempts[id].outcomes[i] = "closed"

\* C18: when the transport closes (ws.onclose), every attempt in the pending
\* table is rejected with the connection-closed failure, its per-attempt
\* timeout is cancelled and the table is empty afterwards; and a call that
\* ws.onclose has rejected is not retried (no later attempt of it is made).
C18_CloseRejectsAndStopsRetries ==
    /\ [][onclose =>
            /\ Len(attempts') = Len(attempts)
            /\ \A id \in Ids :
                /\ ~attempts'[id].pending /\ ~attempts'[id].timer
                /\ attempts'[id].outcomes =
                        IF attempts[id].pending
                        THEN Append(attempts[id].outcomes, "closed")
                        ELSE attempts[id].outcomes]_vars
    /\ [][Len(attempts') > Len(attempts) =>
            \A id \in Ids :
                attempts[id].call = attempts'[Len(attempts')].call
                    => ~ClosedOut(id)]_vars

\* C19: when the reconnect timer armed by a transport close (with fewer than
\* maxReconnectAttempts attempts made) fires, the closed socket is replaced
\* by a fresh one, CONNECTING with its handlers installed; and a close with
\* the counter at the maximum arms no reconnect timer.
C19_ReconnectReplacesTransport ==
    /\ [][reconnectTimeout => readyState' = "connecting"]_vars
    /\ [][(onclose /\ reconnectAttempts >= MaxRetries)
            => UNCHANGED <<reconnectAttempts, reconnectTimer>>]_vars

C21_ThirdAttemptRejectsQueued ==
    [][(/\ ~isIdentified
        /\ identifyTicks = IdentifyAttempts - 1
        /\ identifyTicks' = IdentifyAttempts)
       => /\ requestQueue' = <<>>
          /\ \A i \in 1..Len(requestQueue) :
                LET out == queueOutcomes'[requestQueue[i]]
                IN  out # <<>> /\ out[Len(out)] = "identifyFailed"]_vars

\* C22: after any sequence of setCookies calls, getCookies(url) returns for
\* the hostname of url exactly the {name, value} pairs of the last
\* setCookies for that hostname, in their order, whatever the rest of the
\* url; and the empty sequence for a hostname never set.
C22_GetReturnsLastSet ==
    /\ [](\A url \in Urls :
            cookies[Hostname(url)] = Undefined => getCookies(cookies, url) = <<>>)
    /\ [][\A url \in Urls, list \in CookieLists :
            setCookies(url, list) =>
                \A other \in Urls :
                    Hostname(other) = Hostname(url)
                        => getCookies(cookies', other) = list]_vars

\* C23: when a frame {id, response | error} arrives for an id that is in the
\* pending table, the call is resolved (response) or rejected (error), the
\* per-attempt timeout of the id is cleared and the id is removed from the
\* pending table.
C23_ResponseSettlesAndRemoves ==
    [][\A id \in Ids, kind \in {"response", "error"}, url \in ResponseUrls,
         resCookies \in ResponseCookies :
        (attempts[id].pending /\ onmessageResponse(id, kind, url, resCookies))
        => /\ attempts'[id].outcomes =
                Append(attempts[id].outcomes,
                       IF kind = "error" THEN "errorFrame" ELSE "resolved")
           /\ ~attempts'[id].timer
           /\ ~attempts'[id].pending]_vars


\* C29: in every reachable state each entry of the pending table has its
\* per-attempt timeout armed, also after a send that threw and after an error
\* frame; and a retry made when a timeout fires leaves the old attempt with
\* no timeout and arms the timeout of the new one.
C29_PendingHasLiveTimeout ==
    /\ [](\A id \in Ids : attempts[id].pending => attempts[id].timer)
    /\ [][\A id \in Ids : \A sendOk \in BOOLEAN :
            (attemptTimeout(id, sendOk) /\ attempts[id].retryCount < 3)
            => /\ ~attempts'[id].timer
               /\ Len(attempts') = Len(attempts) + 1
               /\ attempts'[Len(attempts')].timer]_vars


\* C30: an attempt whose send threw has its per-attempt timeout cancelled for
\* good; if its retryCount < maxRetries (3) one timer of 1000 ms is armed and
\* nothing is rejected, otherwise no timer is armed and the call is rejected
\* with the 'Failed to send request' failure, which no other attempt gets.
\* When that timer fires it is spent, and one new attempt of the same call is
\* made under a fresh id with retryCount + 1; a spent timer is never armed
\* again.  A call never makes more than maxRetries + 1 (4) attempts.
C30_SendFailureRetriesAfterDelay ==
    /\ [](\A id \in Ids :
            LET a == attempts[id]
            IN  /\ a.threw => ~a.timer
                /\ a.retryTimer => a.threw /\ a.retryCount < 3
                /\ (\E i \in 1..Len(a.outcomes) : a.outcomes[i] = "sendFailed")
                        <=> a.threw /\ a.retryCount = 3
                /\ a.retryDelay = IF a.threw /\ a.retryCount < 3
                                  THEN 1000 ELSE 0)
    /\ [](\A call \in Calls : Cardinality(AttemptsOf(call)) <= 3 + 1)
    /\ [][\A n \in 1..Len(attempts') :
            (n > Len(attempts) /\ attempts'[n].threw)
            => /\ ~attempts'[n].timer
               /\ IF attempts'[n].retryCount < 3
                  THEN /\ attempts'[n].retryTimer
                       /\ attempts'[n].outcomes = <<>>
                  ELSE /\ ~attempts'[n].retryTimer
                       /\ attempts'[n].outcomes = <<"sendFailed">>]_vars
    /\ [][\A id \in Ids : \A sendOk \in BOOLEAN :
            sendRetryTimer(id, sendOk)
            => LET n == Len(attempts)
               IN  /\ ~attempts'[id].retryTimer
                   /\ Len(attempts') = n + 1
                   /\ attempts'[n + 1].call = attempts[id].call
                   /\ attempts'[n + 1].retryCount = attempts[id].retryCount + 1
                   /\ \A old \in Ids \ {id} : attempts'[old] = attempts[old]]_vars
    /\ [][\A id \in Ids :
            ~attempts[id].retryTimer => ~attempts'[id].retryTimer]_vars

\* every send of a call threw: the first maxRetries attempts were each
\* retried by their 1000 ms timer, the last one rejected the call
C30_Witness ==
    \E call \in Calls :
        /\ Cardinality(AttemptsOf(call)) = MaxRetries + 1
        /\ \A id \in AttemptsOf(call) :
            /\ attempts[id].threw /\ ~attempts[id].timer
            /\ ~attempts[id].retryTimer
            /\ attempts[id].retryCount < MaxRetries =>
                    /\ attempts[id].retryDelay = SendRetryDelayMs
                    /\ attempts[id].outcomes = <<>>
            /\ attempts[id].retryCount = MaxRetries =>
                    attempts[id].outcomes = <<"sendFailed">>


\* the calls of resolve / reject made for a call by its first n attempts
RECURSIVE SettledUpTo(_, _)
SettledUpTo(call, n) ==
    IF n = 0 THEN 0
    ELSE SettledUpTo(call, n - 1)
            + IF attempts[n].call = call THEN Len(attempts[n].outcomes) ELSE 0

\* the calls of resolve / reject made for a call: by its attempts and, while
\* it was queued, by its give-up timer
Settlements(call) ==
    SettledUpTo(call, Len(attempts)) + Len(queueOutcomes[call])

\* C32: for every call of fetch, resolve / reject is called at most once in
\* total over all the attempts of the call and its time in the queue.
C32_OneSettlementPerCall ==
    \A call \in Calls : Settlements(call) <= 1



\* C38: once close() has been called, whatever the connection state was at
\* the call, the heartbeat timer and the queue-drain timer are stopped; and
\* the ws.onclose that follows a ws.close() made by close() arms no reconnect
\* timer and counts no reconnect attempt.
C38_CloseStopsTimersAndReconnect ==
    /\ [](closeCalled # "no" => ~heartBeatTimer /\ ~queueCheckTimer)
    /\ [][(closeCalled = "acted" /\ onclose)
            => /\ reconnectTimer' = reconnectTimer
               /\ reconnectAttempts' = reconnectAttempts]_vars

\* ============================================== executor-side claims
\* C37: each loss of the channel, whether it is detected by the 'close' event
\* or by the watchdog closing the channel, increments reconnectAttempts by
\* exactly one (scheduleReconnect runs once for the socket that was lost, and
\* a socket whose 'close' event has run has had that one run); at most one
\* reconnect timer is pending; reconnectAttempts is 0 after 'open'.
C37_OneReconnectPerLoss ==
    /\ [](\A i \in 1..Len(extSockets) :
            /\ extSockets[i].scheduled <= 1
            /\ extSockets[i].state = "closed" => extSockets[i].scheduled = 1)
    /\ [](extTimersPending <= 1)
    /\ [][\A i \in 1..Len(extSockets) :
            handleWebSocketOpen(i) => extReconnectAttempts' = 0]_vars

====
